---- MODULE Spec2Model ----
(***************************************************************************)
(* Lead-generation pipeline of Slanstey/leadsgen.                          *)
(*                                                                         *)
(* The model follows WorkflowOrchestrator.generate_leads                   *)
(* (backend/services/workflow_orchestrator.py) step by step, together with *)
(* DatabaseService.save_leads_and_companies                                *)
(* (backend/services/database_service.py) and the wiring of the services   *)
(* in backend/app.py.                                                      *)
(*                                                                         *)
(* Text values (company names, contact names) are sequences of one-letter  *)
(* strings so that str.strip() and str.lower() are computed, not assumed.  *)
(* Python's None is the one-element sequence None below; it is not a text  *)
(* value, and calling a str method on it raises AttributeError.            *)
(***************************************************************************)
EXTENDS Integers, Sequences, FiniteSets, TLC

(***************************************************************************)
(* Bounds of the model.                                                    *)
(***************************************************************************)
\* longest methods list handed to generate_leads
MaxMethods == 2
\* largest max_results_per_method, and the longest answer of an external service
MaxPerMethod == 2

(***************************************************************************)
(* Text values.                                                            *)
(***************************************************************************)
None == <<"NONE">>

sEmpty == <<>>
sAb == <<"A", "b">>
sAbPadded == <<" ", "a", "B", " ">>
sA == <<"a">>
sAPipeB == <<"a", "|", "b">>
sC == <<"c">>
sBPipeC == <<"b", "|", "c">>
sContact == <<"C", "o", "n", "t", "a", "c", "t">>
sContactLower == <<"c", "o", "n", "t", "a", "c", "t">>
sUnknown == <<"U", "n", "k", "n", "o", "w", "n">>
sUnknownCompany == <<"U", "n", "k", "n", "o", "w", "n", " ", "C", "o", "m", "p", "a", "n", "y">>

\* str.lower() on one character
LowerChar(c) ==
  CASE c = "A" -> "a"
    [] c = "B" -> "b"
    [] c = "C" -> "c"
    [] c = "U" -> "u"
    [] OTHER -> c

\* str.lower()
lower(s) == [k \in 1..Len(s) |-> LowerChar(s[k])]

RECURSIVE lstrip(_)
lstrip(s) == IF s # <<>> /\ Head(s) = " " THEN lstrip(Tail(s)) ELSE s

RECURSIVE rstrip(_)
rstrip(s) == IF s # <<>> /\ s[Len(s)] = " " THEN rstrip(SubSeq(s, 1, Len(s) - 1)) ELSE s

\* str.strip()
strip(s) == rstrip(lstrip(s))

(***************************************************************************)
(* Method names.                                                           *)
(***************************************************************************)
KnownMethods == {"google_places_api", "pure_llm", "google_custom_search", "linkedin_search"}
UnknownMethods == {"bogus"}
MethodNames == KnownMethods \cup UnknownMethods

RECURSIVE SeqsUpTo(_, _)
\* all sequences over S of length at most n
SeqsUpTo(S, n) ==
  IF n = 0 THEN {<<>>}
  ELSE LET shorter == SeqsUpTo(S, n - 1)
       IN shorter \cup {Append(q, x) : q \in {r \in shorter : Len(r) = n - 1}, x \in S}

Lead(company, contact, src) ==
  [company_name |-> company, contact_person |-> contact, source |-> src]

VARIABLES
  pc,                 \* position of generate_leads
  google_places_service, \* app.py wiring: TRUE iff a GooglePlacesService was built
  llm_api_key,        \* LLMService.api_key is set
  methods,            \* argument of generate_leads
  preferences,        \* argument of generate_leads
  i,                  \* index of the next method of the for loop
  all_leads,
  method_results,
  errors,
  deduplicated_leads,
  save_results,
  j,                  \* index of the next lead inside save_leads_and_companies
  leads_created,      \* local of save_leads_and_companies
  companies_created,  \* local of save_leads_and_companies
  lead_rows,          \* rows of the leads table (one tenant)
  company_rows,       \* rows of the companies table (one tenant)
  result,             \* the Workflow Result returned to the caller
  calls,              \* history: collaborators called, in order, and how each call ended
  returned,           \* history: outcome of _process_method for each method processed
  save_arg,           \* history: argument of the last call
  inserted,           \* history: lead rows inserted during this run
  max_results_per_method, \* argument of generate_leads
  search_query,       \* local of generate_leads, followed in SpecQuery only
  service,            \* SpecSearch: the search adapter the behaviour follows
  s_pc,               \* position of search_profiles / search
  invocations,        \* number of invocations so far
  locations,          \* argument of search_profiles
  positions,          \* argument of search_profiles
  years_is_str,       \* experience_years of search_profiles is text
  limit,              \* argument of search_profiles
  pair,               \* index of the next (location, position) of the nested loops
  profiles,           \* local of search_profiles
  max_results,        \* argument of search
  page,               \* loop variable i of search
  results,            \* local of search
  processed_urls,     \* local of search_profiles and of search
  requests,           \* history: the search requests of this invocation
  extracted,          \* history: the items handed to _extract_profile / _extract_result
  search_returned,    \* what the last invocation that returned gave back
  api_key,            \* the credentials of the unit followed are set: self.api_key,
                      \* or LINKEDIN_CLIENT_ID and LINKEDIN_CLIENT_SECRET in SpecOAuth
  system_prompt,      \* local of LLMService.generate_leads
  places_leads,       \* local leads of _process_method, google_places_api branch
  oauth_states,       \* app.py: the module-level dict oauth_states
  issued,             \* history: the states connect_linkedin has handed out
  callbacks           \* history: the calls of linkedin_callback and their answers

\* the state of the search adapters
search_vars == <<service, s_pc, invocations, locations, positions, years_is_str, limit,
                 pair, profiles, max_results, page, results, processed_urls, requests,
                 extracted, search_returned>>

\* the state that only the specifications of single units follow
\* the state of the LLM and places adapters
adapter_vars == <<api_key, system_prompt, places_leads>>

\* the state of the LinkedIn OAuth endpoints
oauth_vars == <<oauth_states, issued, callbacks>>

unit_vars == <<search_query, search_vars, adapter_vars, oauth_vars>>

\* the locals and histories of the search adapters before any invocation
SearchIdle ==
  /\ s_pc = "Idle"
  /\ invocations = 0
  /\ locations = <<>>
  /\ positions = <<>>
  /\ years_is_str = FALSE
  /\ limit = 0
  /\ pair = 0
  /\ profiles = <<>>
  /\ max_results = 0
  /\ page = 0
  /\ results = <<>>
  /\ processed_urls = {}
  /\ requests = <<>>
  /\ extracted = <<>>
  /\ search_returned = <<>>

\* no search adapter is followed
SearchAtRest ==
  /\ service = "none"
  /\ SearchIdle

\* no LLM or places adapter is followed
AdaptersAtRest ==
  /\ api_key = FALSE
  /\ system_prompt = ""
  /\ places_leads = <<>>

\* no OAuth flow is followed
OAuthAtRest ==
  /\ oauth_states = {}
  /\ issued = <<>>
  /\ callbacks = <<>>

vars == <<pc, google_places_service, llm_api_key, methods, preferences, i, all_leads,
          method_results, errors, deduplicated_leads, save_results, j, leads_created,
          companies_created, lead_rows, company_rows, result, calls, returned,
          save_arg, inserted, max_results_per_method, unit_vars>>


(***************************************************************************)
(* What the adapters can hand back.  Each pool holds leads in the shape    *)
(* _process_method gives them (workflow_orchestrator.py:174-185, 197,      *)
(* 214-225, 273-284).                                                      *)
(***************************************************************************)
\* google_places_api: contact_person is always "Contact"; displayName may be empty
PlacesPool == {Lead(sAb, sContact, "google_places_api"),
               Lead(sA, sContact, "google_places_api"),
               Lead(sEmpty, sContact, "google_places_api")}

\* pure_llm: _parse_llm_response copies whatever the JSON holds, null included
LLMPool == {Lead(sAbPadded, sContactLower, "pure_llm"),
            Lead(None, sC, "pure_llm"),
            Lead(sAPipeB, sC, "pure_llm"),
            Lead(sA, sBPipeC, "pure_llm")}

\* google_custom_search: _extract_company_name falls back to "Unknown Company"
CustomSearchPool == {Lead(sAb, sEmpty, "google_custom_search"),
                     Lead(sUnknownCompany, sEmpty, "google_custom_search")}

\* linkedin_search: company falls back to "Unknown Company", name is extracted
LinkedInPool == {Lead(sAb, sC, "linkedin_search"),
                 Lead(sUnknownCompany, sC, "linkedin_search")}

(***************************************************************************)
(* _deduplicate_leads                                                      *)
(***************************************************************************)
\* key = f"{company_name}|{contact_person}" of the stripped, lowercased fields
DedupKey(lead) ==
  lower(strip(lead.company_name)) \o <<"|">> \o lower(strip(lead.contact_person))

\* lead.get(...).strip() raises AttributeError when the value is None
DedupRaises(leads) ==
  \E k \in 1..Len(leads) :
    leads[k].company_name = None \/ leads[k].contact_person = None

\* the lead is appended iff its key is new and its stripped company name is not empty
DedupKeeps(lead, seen) ==
  DedupKey(lead) \notin seen /\ lower(strip(lead.company_name)) # <<>>

RECURSIVE DedupLoopLastWins(_, _, _)
\* variant: of the candidates sharing a key the last one is kept
DedupLoopLastWins(leads, seen, deduplicated) ==
  IF leads = <<>> THEN deduplicated
  ELSE LET lead == leads[Len(leads)]
           rest == SubSeq(leads, 1, Len(leads) - 1)
       IN IF DedupKeeps(lead, seen)
          THEN DedupLoopLastWins(rest, seen \cup {DedupKey(lead)}, <<lead>> \o deduplicated)
          ELSE DedupLoopLastWins(rest, seen, deduplicated)

RECURSIVE DedupLoopForgets(_, _, _)
\* variant: a key is forgotten again when a candidate is dropped for it
DedupLoopForgets(leads, seen, deduplicated) ==
  IF leads = <<>> THEN deduplicated
  ELSE LET lead == Head(leads)
       IN IF DedupKeeps(lead, seen)
          THEN DedupLoopForgets(Tail(leads), seen \cup {DedupKey(lead)},
                                Append(deduplicated, lead))
          ELSE DedupLoopForgets(Tail(leads), seen \ {DedupKey(lead)}, deduplicated)

RECURSIVE DedupLoop(_, _, _)
DedupLoop(leads, seen, deduplicated) ==
  IF leads = <<>> THEN deduplicated
  ELSE LET lead == Head(leads)
       IN IF DedupKeeps(lead, seen)
          THEN DedupLoop(Tail(leads), seen \cup {DedupKey(lead)}, Append(deduplicated, lead))
          ELSE DedupLoop(Tail(leads), seen, deduplicated)

_deduplicate_leads(leads) == DedupLoop(leads, {}, <<>>)

(***************************************************************************)
(* generate_leads                                                          *)
(***************************************************************************)
Put(f, k, v) == [x \in DOMAIN f \cup {k} |-> IF x = k THEN v ELSE f[x]]

EmptyMap == [x \in {} |-> 0]

NoResult == [success |-> FALSE, leads_created |-> 0, companies_created |-> 0,
             method_results |-> EmptyMap, total_leads_found |-> 0, errors |-> None]

Call(callee, raised) == [callee |-> callee, raised |-> raised]

ErrorInMethod(method, message) == "Error in method " \o method \o ": " \o message

\* str(e) of the exceptions that leave _process_method
PlacesNotInitialized == "Google Places service not initialized"
YearsTypeError == "'>' not supported between instances of 'str' and 'int'"
UnknownMethodMessage(method) == "Unknown method: " \o method
ExceptionMessages ==
  {PlacesNotInitialized, YearsTypeError} \cup {UnknownMethodMessage(m) : m \in UnknownMethods}

\* str(e) of an exception raised by the call of the persistence delegate
SaveFailures == {"delegate unavailable"}

ErrorSaving(message) == "Error saving to database: " \o message

Init ==
  /\ pc = "Idle"
  /\ google_places_service \in BOOLEAN
  /\ llm_api_key \in BOOLEAN
  /\ methods = <<>>
  /\ preferences = [experience_years_is_str |-> FALSE]
  /\ i = 0
  /\ all_leads = <<>>
  /\ method_results = EmptyMap
  /\ errors = <<>>
  /\ deduplicated_leads = <<>>
  /\ save_results = [leads_created |-> 0, companies_created |-> 0]
  /\ j = 0
  /\ leads_created = 0
  /\ companies_created = 0
  /\ lead_rows \in {<<>>, <<[company_name |-> sAb, contact_person |-> sC]>>}
  /\ company_rows \in {<<>>, <<sAb>>}
  /\ (lead_rows # <<>> => company_rows # <<>>)
  /\ result = NoResult
  /\ calls = <<>>
  /\ returned = <<>>
  /\ save_arg = <<>>
  /\ inserted = 0
  /\ max_results_per_method = 0
  /\ search_query = ""
  /\ SearchAtRest
  /\ AdaptersAtRest
  /\ OAuthAtRest

\* generate_leads is entered: lines 67-77
Start ==
  /\ pc = "Idle"
  /\ \E ms \in SeqsUpTo(MethodNames, MaxMethods), ystr \in BOOLEAN,
        n \in 0..MaxPerMethod :
       /\ methods' = ms
       /\ preferences' = [experience_years_is_str |-> ystr]
       /\ max_results_per_method' = n
  /\ pc' = "Querying"
  /\ i' = 1
  /\ UNCHANGED unit_vars
  /\ UNCHANGED <<google_places_service, llm_api_key, all_leads, method_results, errors,
                 deduplicated_leads, save_results, j, leads_created, companies_created,
                 lead_rows, company_rows, result, calls, returned, save_arg, inserted>>

\* variant: the adapter hands back everything the service answered
SliceNothing(list, n) == list

\* list[:n] for n >= 0, the last statement of every adapter:
\* google_places_service.py:105, llm_service.py:150,
\* google_custom_search_service.py:93, linkedin_search.py:106
Slice(list, n) == SubSeq(list, 1, IF n < Len(list) THEN n ELSE Len(list))

\* lines 92-98: the method returned its leads; offered is the number of items the
\* external service had answered
MethodReturned(method, leads, called, offered) ==
  /\ all_leads' = all_leads \o leads
  /\ method_results' = Put(method_results, method, Len(leads))
  /\ errors' = errors
  /\ calls' = IF called THEN Append(calls, Call(method, FALSE)) ELSE calls
  /\ returned' = Append(returned, [method |-> method, raised |-> FALSE, leads |-> leads,
                                    offered |-> offered])

\* variant: the handler also throws away the leads collected so far
MethodRaisedDropsLeads(method, message, called) ==
  /\ all_leads' = <<>>
  /\ method_results' = Put(method_results, method, 0)
  /\ errors' = Append(errors, ErrorInMethod(method, message))
  /\ calls' = IF called THEN Append(calls, Call(method, TRUE)) ELSE calls
  /\ returned' = Append(returned, [method |-> method, raised |-> TRUE, leads |-> <<>>,
                                    offered |-> 0])

\* lines 100-104: _process_method raised
MethodRaised(method, message, called) ==
  /\ all_leads' = all_leads
  /\ method_results' = Put(method_results, method, 0)
  /\ errors' = Append(errors, ErrorInMethod(method, message))
  /\ calls' = IF called THEN Append(calls, Call(method, TRUE)) ELSE calls
  /\ returned' = Append(returned, [method |-> method, raised |-> TRUE, leads |-> <<>>,
                                    offered |-> 0])

InLoop(method) ==
  /\ pc = "Querying"
  /\ i <= Len(methods)
  /\ methods[i] = method
  /\ i' = i + 1
  /\ UNCHANGED <<max_results_per_method, unit_vars>>
  /\ UNCHANGED <<pc, google_places_service, llm_api_key, methods, preferences,
                 deduplicated_leads, save_results, j, leads_created, companies_created,
                 lead_rows, company_rows, result, save_arg, inserted>>

\* loop body for "google_places_api": lines 145-185
ProcessGooglePlaces ==
  /\ InLoop("google_places_api")
  /\ IF ~google_places_service
     THEN MethodRaised("google_places_api", PlacesNotInitialized, FALSE)
     ELSE \E businesses \in SeqsUpTo(PlacesPool, MaxPerMethod) :
            MethodReturned("google_places_api", Slice(businesses, max_results_per_method),
                           TRUE, Len(businesses))

\* loop body for "pure_llm": lines 187-197; LLMService.generate_leads returns []
\* without an API key (llm_service.py:52-54)
ProcessPureLLM ==
  /\ InLoop("pure_llm")
  /\ \E leads \in SeqsUpTo(LLMPool, MaxPerMethod) :
       /\ llm_api_key \/ leads = <<>>
       /\ MethodReturned("pure_llm", Slice(leads, max_results_per_method), TRUE, Len(leads))

\* loop body for "google_custom_search": lines 199-225
ProcessGoogleCustomSearch ==
  /\ InLoop("google_custom_search")
  /\ \E search_results \in SeqsUpTo(CustomSearchPool, MaxPerMethod) :
       MethodReturned("google_custom_search",
                      Slice(search_results, max_results_per_method),
                      TRUE, Len(search_results))

\* loop body for "linkedin_search": lines 227-284; search_profiles builds its query
\* outside its try block (linkedin_search.py:68, 118), so a textual experience_years
\* raises TypeError out of the adapter
ProcessLinkedInSearch ==
  /\ InLoop("linkedin_search")
  /\ IF preferences.experience_years_is_str
     THEN MethodRaised("linkedin_search", YearsTypeError, TRUE)
     ELSE \E found \in SeqsUpTo(LinkedInPool, MaxPerMethod) :
            MethodReturned("linkedin_search", Slice(found, max_results_per_method),
                           TRUE, Len(found))

\* variant: an unknown name is skipped without an error
ProcessUnknownMethodSilently ==
  /\ \E method \in UnknownMethods :
       /\ InLoop(method)
       /\ MethodReturned(method, <<>>, FALSE, 0)

\* loop body for any other name: lines 286-287
ProcessUnknownMethod ==
  /\ \E method \in UnknownMethods :
       /\ InLoop(method)
       /\ MethodRaised(method, UnknownMethodMessage(method), FALSE)

\* lines 106-108, after the loop
Deduplicate ==
  /\ pc = "Querying"
  /\ i > Len(methods)
  /\ IF DedupRaises(all_leads)
     THEN /\ pc' = "Raised"
          /\ UNCHANGED deduplicated_leads
     ELSE /\ pc' = "Persisting"
          /\ deduplicated_leads' = _deduplicate_leads(all_leads)
  /\ UNCHANGED <<max_results_per_method, unit_vars>>
  /\ UNCHANGED <<google_places_service, llm_api_key, methods, preferences, i, all_leads,
                 method_results, errors, save_results, j, leads_created,
                 companies_created, lead_rows, company_rows, result, calls,
                 returned, save_arg, inserted>>


(***************************************************************************)
(* DatabaseService                                                         *)
(***************************************************************************)
\* _get_or_create_company: ok = FALSE when a store request raises (caught, None)
_get_or_create_company(company_name, ok) ==
  IF ~ok THEN [id |-> FALSE, rows |-> company_rows]
  ELSE IF \E k \in 1..Len(company_rows) : company_rows[k] = company_name
       THEN [id |-> TRUE, rows |-> company_rows]
       ELSE [id |-> TRUE, rows |-> Append(company_rows, company_name)]

\* the lookup of an existing lead: exact company_name and contact_person
LeadExists(company_name, contact_person) ==
  \E k \in 1..Len(lead_rows) :
    /\ lead_rows[k].company_name = company_name
    /\ lead_rows[k].contact_person = contact_person

\* variant: an existing lead is reported as created
_create_lead_CountsExisting(company_name, lead_data, ok) ==
  LET contact_person == strip(lead_data.contact_person)
  IN IF ~ok THEN [id |-> FALSE, rows |-> lead_rows]
     ELSE IF contact_person # <<>> /\ LeadExists(company_name, contact_person)
          THEN [id |-> TRUE, rows |-> lead_rows]
          ELSE [id |-> TRUE,
                rows |-> Append(lead_rows,
                                [company_name |-> company_name,
                                 contact_person |-> IF contact_person = <<>>
                                                    THEN sUnknown ELSE contact_person])]

\* _create_lead: ok = FALSE when a store request raises (caught, None)
_create_lead(company_name, lead_data, ok) ==
  LET contact_person == strip(lead_data.contact_person)
  IN IF ~ok THEN [id |-> FALSE, rows |-> lead_rows]
     ELSE IF contact_person # <<>> /\ LeadExists(company_name, contact_person)
          THEN [id |-> FALSE, rows |-> lead_rows]
          ELSE [id |-> TRUE,
                rows |-> Append(lead_rows,
                                [company_name |-> company_name,
                                 contact_person |-> IF contact_person = <<>>
                                                    THEN sUnknown ELSE contact_person])]

\* variant: only an empty name is skipped
SkipsLeadEmptyOnly(company_name) == company_name = <<>>

\* the test of database_service.py:53
SkipsLead(company_name) == company_name = <<>> \/ company_name = sUnknownCompany

\* line 112: the delegate is called only for a non-empty batch
SkipSave ==
  /\ pc = "Persisting"
  /\ deduplicated_leads = <<>>
  /\ pc' = "Returning"
  /\ UNCHANGED <<max_results_per_method, unit_vars>>
  /\ UNCHANGED <<google_places_service, llm_api_key, methods, preferences, i, all_leads,
                 method_results, errors, deduplicated_leads, save_results, j,
                 leads_created, companies_created, lead_rows, company_rows, result,
                 calls, returned, save_arg, inserted>>

\* variant: the delegate gets the merged list instead of the deduplicated batch
SaveCallWithAllLeads ==
  /\ pc = "Persisting"
  /\ deduplicated_leads # <<>>
  /\ pc' = "Saving"
  /\ calls' = Append(calls, Call("save_leads_and_companies", FALSE))
  /\ save_arg' = all_leads
  /\ j' = 1
  /\ leads_created' = 0
  /\ companies_created' = 0
  /\ UNCHANGED <<max_results_per_method, unit_vars>>
  /\ UNCHANGED <<google_places_service, llm_api_key, methods, preferences, i, all_leads,
                 method_results, errors, deduplicated_leads, save_results, lead_rows,
                 company_rows, result, returned, inserted>>

\* lines 113-117 and database_service.py:44-45: save_leads_and_companies is entered
SaveCall ==
  /\ pc = "Persisting"
  /\ deduplicated_leads # <<>>
  /\ pc' = "Saving"
  /\ calls' = Append(calls, Call("save_leads_and_companies", FALSE))
  /\ save_arg' = deduplicated_leads
  /\ j' = 1
  /\ leads_created' = 0
  /\ companies_created' = 0
  /\ UNCHANGED <<max_results_per_method, unit_vars>>
  /\ UNCHANGED <<google_places_service, llm_api_key, methods, preferences, i, all_leads,
                 method_results, errors, deduplicated_leads, save_results, lead_rows,
                 company_rows, result, returned, inserted>>

\* variant: the handler does not record the failure
SaveRaisesUnrecorded ==
  /\ pc = "Persisting"
  /\ deduplicated_leads # <<>>
  /\ pc' = "Returning"
  /\ calls' = Append(calls, Call("save_leads_and_companies", TRUE))
  /\ save_arg' = deduplicated_leads
  /\ UNCHANGED <<max_results_per_method, unit_vars>>
  /\ UNCHANGED <<google_places_service, llm_api_key, methods, preferences, i, all_leads,
                 method_results, errors, deduplicated_leads, save_results, j,
                 leads_created, companies_created, lead_rows, company_rows, result,
                 returned, inserted>>

\* lines 119-122: the call itself raises.  Inside save_leads_and_companies every
\* exception of the per-lead work is caught (database_service.py:76-81), so an
\* exception reaches the orchestrator only from the call, before any row is written.
SaveRaises ==
  /\ pc = "Persisting"
  /\ deduplicated_leads # <<>>
  /\ pc' = "Returning"
  /\ calls' = Append(calls, Call("save_leads_and_companies", TRUE))
  /\ save_arg' = deduplicated_leads
  /\ \E message \in SaveFailures : errors' = Append(errors, ErrorSaving(message))
  /\ UNCHANGED <<max_results_per_method, unit_vars>>
  /\ UNCHANGED <<google_places_service, llm_api_key, methods, preferences, i, all_leads,
                 method_results, deduplicated_leads, save_results, j, leads_created,
                 companies_created, lead_rows, company_rows, result, returned,
                 inserted>>

\* database_service.py:49-78: one iteration of the loop over leads_data
SaveLead ==
  /\ pc = "Saving"
  /\ j <= Len(save_arg)
  /\ j' = j + 1
  /\ LET lead_data == save_arg[j]
         company_name == strip(lead_data.company_name)
     IN IF SkipsLead(company_name)
        THEN UNCHANGED <<leads_created, companies_created, lead_rows, company_rows, inserted>>
        ELSE \E company_ok \in BOOLEAN, lead_ok \in BOOLEAN :
               LET company == _get_or_create_company(company_name, company_ok)
                   lead == _create_lead(company_name, lead_data, lead_ok)
               IN /\ company_rows' = company.rows
                  /\ companies_created' = IF company.id THEN companies_created + 1
                                          ELSE companies_created
                  /\ lead_rows' = lead.rows
                  /\ leads_created' = IF lead.id THEN leads_created + 1 ELSE leads_created
                  /\ inserted' = inserted + (Len(lead.rows) - Len(lead_rows))
  /\ UNCHANGED <<max_results_per_method, unit_vars>>
  /\ UNCHANGED <<pc, google_places_service, llm_api_key, methods, preferences, i, all_leads,
                 method_results, errors, deduplicated_leads, save_results, result,
                 calls, returned, save_arg>>

\* database_service.py:83-86 and line 114: the counts come back
SaveReturn ==
  /\ pc = "Saving"
  /\ j > Len(save_arg)
  /\ save_results' = [leads_created |-> leads_created,
                      companies_created |-> companies_created]
  /\ pc' = "Returning"
  /\ UNCHANGED <<max_results_per_method, unit_vars>>
  /\ UNCHANGED <<google_places_service, llm_api_key, methods, preferences, i, all_leads,
                 method_results, errors, deduplicated_leads, j, leads_created,
                 companies_created, lead_rows, company_rows, result, calls,
                 returned, save_arg, inserted>>

\* variant: errors is reported as a list even when it is empty
WorkflowResultErrorsList ==
  [success |-> save_results.leads_created > 0,
   leads_created |-> save_results.leads_created,
   companies_created |-> save_results.companies_created,
   method_results |-> method_results,
   total_leads_found |-> Len(deduplicated_leads),
   errors |-> errors]

\* variant: leads_created reports the companies counter
WorkflowResultCountsCompanies ==
  [success |-> save_results.leads_created > 0,
   leads_created |-> save_results.companies_created,
   companies_created |-> save_results.companies_created,
   method_results |-> method_results,
   total_leads_found |-> Len(deduplicated_leads),
   errors |-> IF errors # <<>> THEN errors ELSE None]

\* lines 124-131
WorkflowResult ==
  [success |-> save_results.leads_created > 0,
   leads_created |-> save_results.leads_created,
   companies_created |-> save_results.companies_created,
   method_results |-> method_results,
   total_leads_found |-> Len(deduplicated_leads),
   errors |-> IF errors # <<>> THEN errors ELSE None]

Return ==
  /\ pc = "Returning"
  /\ result' = WorkflowResult
  /\ pc' = "Done"
  /\ UNCHANGED <<max_results_per_method, unit_vars>>
  /\ UNCHANGED <<google_places_service, llm_api_key, methods, preferences, i, all_leads,
                 method_results, errors, deduplicated_leads, save_results, j,
                 leads_created, companies_created, lead_rows, company_rows,
                 calls, returned, save_arg, inserted>>

Next ==
  \/ Start
  \/ ProcessGooglePlaces
  \/ ProcessPureLLM
  \/ ProcessGoogleCustomSearch
  \/ ProcessLinkedInSearch
  \/ ProcessUnknownMethod
  \/ Deduplicate
  \/ SkipSave
  \/ SaveCall
  \/ SaveRaises
  \/ SaveLead
  \/ SaveReturn
  \/ Return

Spec == Init /\ [][Next]_vars

(***************************************************************************)
(* _build_search_query, as a unit: the specification SpecQuery draws a     *)
(* Tenant Preference Set and applies the function to it.  Preference       *)
(* values are strings here; a field is absent, empty or set.               *)
(***************************************************************************)
QueryFields == {"company_type", "target_industry", "locations", "keywords",
                "company_size", "technology_stack", "funding_stage", "geographic_region"}

\* the value a field has when it is set
FieldValue ==
  [company_type |-> "private", target_industry |-> "health", locations |-> "Paris",
   keywords |-> "lab", company_size |-> "small", technology_stack |-> "python",
   funding_stage |-> "seed", geographic_region |-> "EMEA"]

\* every dict over a subset of the fields, each present field empty or set
PreferenceSets ==
  UNION {[present -> {"", "set"}] : present \in SUBSET QueryFields}

\* the dict a member of PreferenceSets stands for
Dict(choice) == [k \in DOMAIN choice |-> IF choice[k] = "set" THEN FieldValue[k] ELSE ""]

\* preferences.get(key, "")
Get(prefs, key) == IF key \in DOMAIN prefs THEN prefs[key] ELSE ""

\* query_parts.append(value) under "if value:"
AppendIf(query_parts, value) == IF value # "" THEN Append(query_parts, value) ELSE query_parts

RECURSIVE Join(_)
\* " ".join(query_parts) of a non-empty list
Join(query_parts) ==
  IF Len(query_parts) = 1 THEN query_parts[1]
  ELSE query_parts[1] \o " " \o Join(Tail(query_parts))

\* variant: nothing is put into an empty query
_build_search_query_NoDefault(prefs) ==
  LET region == IF Get(prefs, "locations") # "" THEN Get(prefs, "locations")
                ELSE Get(prefs, "geographic_region")
      p1 == AppendIf(<<>>, Get(prefs, "company_type"))
      p2 == AppendIf(p1, Get(prefs, "target_industry"))
      p3 == AppendIf(p2, region)
      p4 == AppendIf(p3, Get(prefs, "keywords"))
      p5 == AppendIf(p4, Get(prefs, "company_size"))
      p6 == AppendIf(p5, Get(prefs, "technology_stack"))
      p7 == AppendIf(p6, Get(prefs, "funding_stage"))
  IN IF p7 = <<>> THEN "" ELSE Join(p7)

\* workflow_orchestrator.py:291-334
_build_search_query(prefs) ==
  LET region == IF Get(prefs, "locations") # "" THEN Get(prefs, "locations")
                ELSE Get(prefs, "geographic_region")
      p1 == AppendIf(<<>>, Get(prefs, "company_type"))
      p2 == AppendIf(p1, Get(prefs, "target_industry"))
      p3 == AppendIf(p2, region)
      p4 == AppendIf(p3, Get(prefs, "keywords"))
      p5 == AppendIf(p4, Get(prefs, "company_size"))
      p6 == AppendIf(p5, Get(prefs, "technology_stack"))
      p7 == AppendIf(p6, Get(prefs, "funding_stage"))
  IN Join(IF p7 = <<>> THEN <<"businesses">> ELSE p7)

\* everything of generate_leads but pc, preferences, deduplicated_leads and
\* search_query is at its initial value
OrchestratorAtRest ==
  /\ google_places_service = TRUE
  /\ llm_api_key = TRUE
  /\ methods = <<>>
  /\ i = 0
  /\ all_leads = <<>>
  /\ method_results = EmptyMap
  /\ errors = <<>>
  /\ save_results = [leads_created |-> 0, companies_created |-> 0]
  /\ j = 0
  /\ leads_created = 0
  /\ companies_created = 0
  /\ lead_rows = <<>>
  /\ company_rows = <<>>
  /\ result = NoResult
  /\ calls = <<>>
  /\ returned = <<>>
  /\ save_arg = <<>>
  /\ inserted = 0
  /\ max_results_per_method = 0

\* generate_leads is not followed
OrchestratorIdle ==
  /\ pc = "Idle"
  /\ preferences = [experience_years_is_str |-> FALSE]
  /\ deduplicated_leads = <<>>
  /\ search_query = ""
  /\ OrchestratorAtRest

InitQuery ==
  /\ pc = "Idle"
  /\ preferences \in {Dict(choice) : choice \in PreferenceSets}
  /\ search_query = ""
  /\ deduplicated_leads = <<>>
  /\ OrchestratorAtRest
  /\ SearchAtRest
  /\ AdaptersAtRest
  /\ OAuthAtRest

\* line 72 of generate_leads
BuildSearchQuery ==
  /\ pc = "Idle"
  /\ search_query' = _build_search_query(preferences)
  /\ pc' = "Built"
  /\ UNCHANGED <<google_places_service, llm_api_key, methods, preferences, i, all_leads,
                 method_results, errors, deduplicated_leads, save_results, j,
                 leads_created, companies_created, lead_rows, company_rows, result,
                 calls, returned, save_arg, inserted, max_results_per_method,
                 search_vars, adapter_vars, oauth_vars>>

NextQuery == BuildSearchQuery

SpecQuery == InitQuery /\ [][NextQuery]_vars

(***************************************************************************)
(* save_leads_and_companies called again and again on one store: the       *)
(* specification SpecSaves starts where generate_leads reaches line 112    *)
(* with a deduplicated batch, and lets later runs bring further batches.   *)
(***************************************************************************)
\* most runs that reach the delegate, one after the other
MaxRuns == 2

\* the non-empty deduplicated batches of the search adapters' candidates
Batches ==
  {_deduplicate_leads(leads) :
     leads \in SeqsUpTo(CustomSearchPool \cup LinkedInPool, MaxPerMethod)} \ {<<>>}

InitSaves ==
  /\ pc = "Persisting"
  /\ preferences = [experience_years_is_str |-> FALSE]
  /\ deduplicated_leads \in Batches
  /\ search_query = ""
  /\ OrchestratorAtRest
  /\ SearchAtRest
  /\ AdaptersAtRest
  /\ OAuthAtRest

\* a later run of generate_leads reaches line 112 with its own batch
NextRun ==
  /\ pc = "Returning"
  /\ Len(calls) < MaxRuns
  /\ pc' = "Persisting"
  /\ deduplicated_leads' \in Batches
  /\ UNCHANGED <<google_places_service, llm_api_key, methods, preferences, i, all_leads,
                 method_results, errors, save_results, j, leads_created,
                 companies_created, lead_rows, company_rows, result, calls, returned,
                 save_arg, inserted, max_results_per_method, unit_vars>>

NextSaves ==
  \/ SaveCall
  \/ SaveLead
  \/ SaveReturn
  \/ NextRun

SpecSaves == InitSaves /\ [][NextSaves]_vars

(***************************************************************************)
(* The search adapters, as units: LinkedInSearchService.search_profiles    *)
(* (backend/services/linkedin_search.py) and GoogleCustomSearchService     *)
(* .search (backend/services/google_custom_search_service.py).  A          *)
(* behaviour of SpecSearch follows one of the two services through a few   *)
(* invocations; the search engine answers each request with a failure or   *)
(* with a short list of items.                                             *)
(***************************************************************************)
\* longest locations list and longest positions list
MaxTerms == 2
\* most items in one answer of the search engine
MaxItems == 2
\* largest max_results handed to search
MaxResults == 20

orchestrator_vars ==
  <<pc, google_places_service, llm_api_key, methods, preferences, i, all_leads,
    method_results, errors, deduplicated_leads, save_results, j, leads_created,
    companies_created, lead_rows, company_rows, result, calls, returned, save_arg,
    inserted, max_results_per_method>>

LocationNames == <<"Paris", "Oslo", "Lima">>
PositionNames == <<"CEO", "CTO", "CFO">>

\* the argument lists: the first n names, n up to MaxTerms
Lists(names) == {SubSeq(names, 1, n) : n \in 0..MaxTerms}

\* result URLs
uA == "https://www.linkedin.com/in/a"
uB == "https://www.linkedin.com/in/b"
uX == "https://example.com/x"

\* "linkedin.com/in/" in url
IsProfileUrl(url) == url \in {uA, uB}

\* a result item: its link, and whether the extraction gets something out of its
\* title and snippet
Item(link, extractable) == [link |-> link, extractable |-> extractable]

ItemPool == {Item(uA, TRUE), Item(uB, TRUE), Item(uA, FALSE), Item(uX, TRUE), Item("", TRUE)}

\* what requests.get / response.json() can raise
SearchFailures == {"Timeout", "HTTPError", "Exception"}

\* the answers of the engine to one request: a raised exception, an answer that
\* is not a result page ("error" in the body, or a status other than 200), or a
\* page of items
Responses ==
  {[kind |-> k, items |-> <<>>] : k \in SearchFailures \cup {"error"}}
    \cup {[kind |-> "items", items |-> items] : items \in SeqsUpTo(ItemPool, MaxItems)}

Links(items) == [k \in DOMAIN items |-> items[k].link]

\* variant: only an item without a link is passed over
SkipsEmptyOnly(url, processed) == url = ""

\* linkedin_search.py:82 "not url or url in processed_urls";
\* google_custom_search_service.py:76 is its negation
Skips(url, processed) == url = "" \/ url \in processed

InitSearch ==
  /\ service \in {"linkedin_search", "google_custom_search"}
  /\ s_pc = "Idle"
  /\ invocations = 0
  /\ locations = <<>>
  /\ positions = <<>>
  /\ years_is_str = FALSE
  /\ limit = 0
  /\ pair = 0
  /\ profiles = <<>>
  /\ max_results = 0
  /\ page = 0
  /\ results = <<>>
  /\ processed_urls = {}
  /\ requests = <<>>
  /\ extracted = <<>>
  /\ search_returned = <<>>
  /\ pc = "Idle"
  /\ preferences = [experience_years_is_str |-> FALSE]
  /\ deduplicated_leads = <<>>
  /\ search_query = ""
  /\ OrchestratorAtRest
  /\ AdaptersAtRest
  /\ OAuthAtRest

(***************************************************************************)
(* LinkedInSearchService.search_profiles                                   *)
(***************************************************************************)
\* lines 34-56: search_profiles is entered
InvokeSearchProfiles ==
  /\ service = "linkedin_search"
  /\ s_pc \in {"Idle", "Returned", "Raised"}
  /\ invocations < MaxRuns
  /\ invocations' = invocations + 1
  /\ \E locs \in Lists(LocationNames), poss \in Lists(PositionNames),
        ystr \in BOOLEAN, lim \in 0..MaxPerMethod :
       /\ locations' = locs
       /\ positions' = poss
       /\ years_is_str' = ystr
       /\ limit' = lim
  /\ pair' = 1
  /\ profiles' = <<>>
  /\ processed_urls' = {}
  /\ requests' = <<>>
  /\ extracted' = <<>>
  /\ s_pc' = "Searching"
  /\ UNCHANGED <<service, max_results, page, results, search_returned, search_query,
                 orchestrator_vars, adapter_vars, oauth_vars>>

\* the number of (location, position) pairs of the nested loops
NumPairs == Len(locations) * Len(positions)

\* lines 60-61, 64-65: both loops are left
ProfilesLoopEnded == pair > NumPairs \/ Len(profiles) >= limit

\* _execute_search, lines 129-175, on an answer that did not raise: the items
\* whose link is a profile URL
_execute_search(response) ==
  IF response.kind = "error" THEN <<>>
  ELSE SelectSeq(response.items, LAMBDA item : item.link # "" /\ IsProfileUrl(item.link))

\* _extract_profile, lines 177-203: None unless the link is a profile URL and a
\* name or a company was found
ProfileExtracted(item) == IsProfileUrl(item.link) /\ item.extractable

RECURSIVE ExtractProfilesPastLimit(_, _, _)
\* variant: the loop over the items does not look at the limit
ExtractProfilesPastLimit(items, st, lim) ==
  IF items = <<>> THEN st
  ELSE LET item == Head(items)
           url == item.link
       IN IF Skips(url, st.processed_urls)
          THEN ExtractProfilesPastLimit(Tail(items), st, lim)
          ELSE ExtractProfilesPastLimit(
                 Tail(items),
                 [profiles |-> IF ProfileExtracted(item)
                               THEN Append(st.profiles, [url |-> url]) ELSE st.profiles,
                  processed_urls |-> st.processed_urls \cup {url},
                  extracted |-> Append(st.extracted,
                                       [url |-> url, collected |-> st.profiles])],
                 lim)

RECURSIVE ExtractProfiles(_, _, _)
\* lines 77-91: the loop over the items of one answer
ExtractProfiles(items, st, lim) ==
  IF items = <<>> \/ Len(st.profiles) >= lim THEN st
  ELSE LET item == Head(items)
           url == item.link
       IN IF Skips(url, st.processed_urls)
          THEN ExtractProfiles(Tail(items), st, lim)
          ELSE ExtractProfiles(
                 Tail(items),
                 [profiles |-> IF ProfileExtracted(item)
                               THEN Append(st.profiles, [url |-> url]) ELSE st.profiles,
                  processed_urls |-> st.processed_urls \cup {url},
                  extracted |-> Append(st.extracted,
                                       [url |-> url, collected |-> st.profiles])],
                 lim)

\* variant: the pair whose query failed is tried again
AfterFailureRetry(k) == k

\* lines 95-103: "continue" in every handler, the loop goes on with the next pair
AfterFailure(k) == k + 1

\* line 68: _build_search_query compares experience_years with 0 (line 118)
\* outside the try block
QueryRaises ==
  /\ service = "linkedin_search"
  /\ s_pc = "Searching"
  /\ ~ProfilesLoopEnded
  /\ years_is_str
  /\ s_pc' = "Raised"
  /\ UNCHANGED <<service, invocations, locations, positions, years_is_str, limit, pair,
                 profiles, max_results, page, results, processed_urls, requests,
                 extracted, search_returned, search_query, orchestrator_vars,
                 adapter_vars, oauth_vars>>

\* lines 59-103: one pass of the inner loop, for one (location, position) pair
SearchPair ==
  /\ service = "linkedin_search"
  /\ s_pc = "Searching"
  /\ ~ProfilesLoopEnded
  /\ ~years_is_str
  /\ \E response \in Responses :
       LET asked(raised, items) ==
             [pair |-> pair, collected |-> profiles, raised |-> raised,
              links |-> Links(items)]
       IN IF response.kind \in SearchFailures
          THEN /\ requests' = Append(requests, asked(TRUE, <<>>))
               /\ pair' = AfterFailure(pair)
               /\ UNCHANGED <<profiles, processed_urls, extracted>>
          ELSE LET items == _execute_search(response)
                   st == ExtractProfiles(items,
                                         [profiles |-> profiles,
                                          processed_urls |-> processed_urls,
                                          extracted |-> extracted],
                                         limit)
               IN /\ requests' = Append(requests, asked(FALSE, items))
                  /\ pair' = pair + 1
                  /\ profiles' = st.profiles
                  /\ processed_urls' = st.processed_urls
                  /\ extracted' = st.extracted
  /\ UNCHANGED <<service, s_pc, invocations, locations, positions, years_is_str, limit,
                 max_results, page, results, search_returned, search_query,
                 orchestrator_vars, adapter_vars, oauth_vars>>

\* line 106
ReturnProfiles ==
  /\ service = "linkedin_search"
  /\ s_pc = "Searching"
  /\ ProfilesLoopEnded
  /\ search_returned' = Slice(profiles, limit)
  /\ s_pc' = "Returned"
  /\ UNCHANGED <<service, invocations, locations, positions, years_is_str, limit, pair,
                 profiles, max_results, page, results, processed_urls, requests,
                 extracted, search_query, orchestrator_vars,
                 adapter_vars, oauth_vars>>

(***************************************************************************)
(* GoogleCustomSearchService.search                                        *)
(***************************************************************************)
\* the engine's cap on the results of one request
PageSize == 10

Min(a, b) == IF a < b THEN a ELSE b

\* lines 29-45: search is entered
InvokeSearch ==
  /\ service = "google_custom_search"
  /\ s_pc \in {"Idle", "Returned"}
  /\ invocations < MaxRuns
  /\ invocations' = invocations + 1
  /\ max_results' \in 0..MaxResults
  /\ page' = 0
  /\ results' = <<>>
  /\ processed_urls' = {}
  /\ requests' = <<>>
  /\ extracted' = <<>>
  /\ s_pc' = "Searching"
  /\ UNCHANGED <<service, locations, positions, years_is_str, limit, pair, profiles,
                 search_returned, search_query, orchestrator_vars,
                 adapter_vars, oauth_vars>>

\* line 49
num_requests == (max_results + (PageSize - 1)) \div PageSize

\* lines 51-53: the loop is left
PagesLoopEnded == page >= num_requests \/ Len(results) >= max_results

RECURSIVE ExtractResults(_, _)
\* lines 74-80: the loop over the items of one page; _extract_result gives None
\* when it raised inside
ExtractResults(items, st) ==
  IF items = <<>> THEN st
  ELSE LET item == Head(items)
           url == item.link
       IN IF Skips(url, st.processed_urls)
          THEN ExtractResults(Tail(items), st)
          ELSE ExtractResults(
                 Tail(items),
                 [results |-> IF item.extractable
                              THEN Append(st.results, [website |-> url]) ELSE st.results,
                  processed_urls |-> st.processed_urls \cup {url},
                  extracted |-> Append(st.extracted,
                                       [url |-> url, collected |-> st.results])])

\* lines 51-93: one pass of the loop.  An exception ends the loop in the handlers
\* of lines 86-91, a status other than 200 ends it at line 69; both go to line 93
SearchPage ==
  /\ service = "google_custom_search"
  /\ s_pc = "Searching"
  /\ ~PagesLoopEnded
  /\ \E response \in Responses :
       LET asked(items) ==
             [start |-> (page * PageSize) + 1,
              num |-> Min(PageSize, max_results - Len(results)),
              collected |-> results,
              failed |-> response.kind # "items",
              links |-> Links(items)]
       IN IF response.kind # "items"
          THEN /\ requests' = Append(requests, asked(<<>>))
               /\ search_returned' = Slice(results, max_results)
               /\ s_pc' = "Returned"
               /\ UNCHANGED <<page, results, processed_urls, extracted>>
          ELSE LET st == ExtractResults(response.items,
                                        [results |-> results,
                                         processed_urls |-> processed_urls,
                                         extracted |-> extracted])
               IN /\ requests' = Append(requests, asked(response.items))
                  /\ page' = page + 1
                  /\ results' = st.results
                  /\ processed_urls' = st.processed_urls
                  /\ extracted' = st.extracted
                  /\ UNCHANGED <<s_pc, search_returned>>
  /\ UNCHANGED <<service, invocations, locations, positions, years_is_str, limit, pair,
                 profiles, max_results, search_query, orchestrator_vars,
                 adapter_vars, oauth_vars>>

\* line 93, after the loop
ReturnResults ==
  /\ service = "google_custom_search"
  /\ s_pc = "Searching"
  /\ PagesLoopEnded
  /\ search_returned' = Slice(results, max_results)
  /\ s_pc' = "Returned"
  /\ UNCHANGED <<service, invocations, locations, positions, years_is_str, limit, pair,
                 profiles, max_results, page, results, processed_urls, requests,
                 extracted, search_query, orchestrator_vars,
                 adapter_vars, oauth_vars>>

NextSearch ==
  \/ InvokeSearchProfiles
  \/ QueryRaises
  \/ SearchPair
  \/ ReturnProfiles
  \/ InvokeSearch
  \/ SearchPage
  \/ ReturnResults

SpecSearch == InitSearch /\ [][NextSearch]_vars

(***************************************************************************)
(* The extraction heuristics of LinkedInSearchService                      *)
(* (backend/services/linkedin_search.py:177-340).  The regular expressions *)
(* look at one text at a time; what they find in each text of a small      *)
(* universe of titles and snippets is tabulated below, as the source       *)
(* computes it.  The order in which the texts are tried, the fallbacks and *)
(* the discarding are those of the code.                                   *)
(***************************************************************************)
\* most items handed to _extract_profile in one behaviour
MaxExtractions == 2

tLinkedInProfile == "LinkedIn Profile"
tViewProfile == "View profile"
tJohn == "John Doe - CEO at Acme Corp"
tJane == "Jane Roe | Director at Beta Labs"
tCeoOf == "CEO of Acme Corp"


\* a profile URL whose path segment spells a name
uJohn == "https://www.linkedin.com/in/john-doe"

\* lines 217-224 (title) and 227-233 (snippet): the first plausible match of the
\* name patterns in one text, "" when the loop ends without returning
NameIn(text) ==
  CASE text = tJohn -> "John Doe"
    [] text = tJane -> "Jane Roe"
    [] OTHER -> ""

\* lines 268-280 (snippet) and 283-294 (title): the first plausible match of the
\* company patterns in one text
CompanyIn(text) ==
  CASE text = tJohn -> "Acme Corp"
    [] text = tJane -> "Beta Labs"
    [] text = tCeoOf -> "Acme Corp"
    [] OTHER -> ""

\* lines 313-323 (snippet) and 326-334 (title): the first plausible match of the
\* role patterns in one text
RoleIn(text) ==
  CASE text = tJohn -> "CEO"
    [] text = tJane -> "Director"
    [] text = tCeoOf -> "CEO"
    [] OTHER -> ""

\* lines 236-242: the name spelled by the path segment of the URL, "" when it has
\* fewer than two alphabetic words
NameInUrl(url) == IF url = uJohn THEN "John Doe" ELSE ""

\* "linkedin.com/in/" in url
InProfileUrl(url) == url \in {uJohn, uA, uB}

\* lines 205-244
_extract_name(title, snippet, url) ==
  IF NameIn(title) # "" THEN NameIn(title)
  ELSE IF NameIn(snippet) # "" THEN NameIn(snippet)
  ELSE IF NameInUrl(url) # "" THEN NameInUrl(url)
  ELSE "Unknown"

\* lines 246-296: the snippet is tried before the title
_extract_company(snippet, title) ==
  IF CompanyIn(snippet) # "" THEN CompanyIn(snippet)
  ELSE IF CompanyIn(title) # "" THEN CompanyIn(title)
  ELSE "Unknown Company"

\* variant: the searched position is the fallback for the first item only
_extract_role_FirstItemOnly(snippet, title, position) ==
  IF RoleIn(snippet) # "" THEN RoleIn(snippet)
  ELSE IF RoleIn(title) # "" THEN RoleIn(title)
  ELSE IF extracted = <<>> /\ position \notin {"", "Unknown", "unknown", "Unknown Role"}
       THEN position
  ELSE "Unknown Role"

\* lines 298-340: the snippet is tried before the title, then the searched position
_extract_role(snippet, title, position) ==
  IF RoleIn(snippet) # "" THEN RoleIn(snippet)
  ELSE IF RoleIn(title) # "" THEN RoleIn(title)
  ELSE IF position \notin {"", "Unknown", "unknown", "Unknown Role"} THEN position
  ELSE "Unknown Role"

\* the result items of the search engine: a title, a snippet and a link each
ResultItems ==
  {[title |-> t, snippet |-> sn, link |-> l] :
     t \in {tLinkedInProfile, tJohn, tCeoOf},
     sn \in {tViewProfile, tJane, tCeoOf},
     l \in {uJohn, uA, uX}}

\* what _extract_profile gives: none marks the return value None
Profile(none, name, company, role, url, snippet) ==
  [none |-> none, name |-> name, company |-> company, role |-> role, url |-> url,
   snippet |-> snippet]

NoProfile == Profile(TRUE, "", "", "", "", "")

\* variant: a profile is built whatever the extraction found
_extract_profile_KeepsAll(item, position) ==
  IF item.link = "" \/ ~InProfileUrl(item.link) THEN NoProfile
  ELSE Profile(FALSE, _extract_name(item.title, item.snippet, item.link),
               _extract_company(item.snippet, item.title),
               _extract_role(item.snippet, item.title, position),
               item.link, item.snippet)

\* lines 177-203
_extract_profile(item, position) ==
  IF item.link = "" \/ ~InProfileUrl(item.link) THEN NoProfile
  ELSE LET name == _extract_name(item.title, item.snippet, item.link)
           company == _extract_company(item.snippet, item.title)
           role == _extract_role(item.snippet, item.title, position)
       IN IF name = "Unknown" /\ company = "Unknown Company" THEN NoProfile
          ELSE Profile(FALSE, name, company, role, item.link, item.snippet)

InitExtract ==
  /\ service = "linkedin_search"
  /\ SearchIdle
  /\ OrchestratorIdle
  /\ AdaptersAtRest
  /\ OAuthAtRest

\* search_profiles, lines 85-88: one item is handed to _extract_profile and what
\* comes back is collected unless it is None
ExtractProfile ==
  /\ service = "linkedin_search"
  /\ Len(extracted) < MaxExtractions
  /\ \E item \in ResultItems, position \in {"CTO", "CFO", ""} :
       LET profile == _extract_profile(item, position)
       IN /\ extracted' = Append(extracted, [item |-> item, position |-> position,
                                              profile |-> profile])
          /\ profiles' = IF profile.none THEN profiles ELSE Append(profiles, profile)
  /\ UNCHANGED <<service, s_pc, invocations, locations, positions, years_is_str, limit,
                 pair, max_results, page, results, processed_urls, requests,
                 search_returned, search_query, orchestrator_vars, adapter_vars,
                 oauth_vars>>

NextExtract == ExtractProfile

SpecExtract == InitExtract /\ [][NextExtract]_vars

(***************************************************************************)
(* LinkedInSearchService._build_search_query (linkedin_search.py:108-127), *)
(* as search_profiles calls it at line 68 before each request.             *)
(***************************************************************************)
\* variant: the clause is appended for zero years as well
linkedin_build_search_query_FromZero(position, location, experience_operator, experience_years) ==
  LET query == "site:linkedin.com/in " \o position \o " " \o location
      years_text == ToString(experience_years) \o " years"
  IN IF experience_years >= 0
     THEN IF experience_operator = ">"
          THEN query \o " \"" \o years_text \o "\" OR \""
                     \o ToString(experience_years) \o "+ years\""
          ELSE IF experience_operator = "<"
          THEN query \o " \"less than " \o years_text
                     \o "\" OR \"junior\" OR \"entry level\""
          ELSE query \o " \"" \o years_text \o "\""
     ELSE query

\* _build_search_query of LinkedInSearchService, lines 108-127
linkedin_build_search_query(position, location, experience_operator, experience_years) ==
  LET query == "site:linkedin.com/in " \o position \o " " \o location
      years_text == ToString(experience_years) \o " years"
  IN IF experience_years > 0
     THEN IF experience_operator = ">"
          THEN query \o " \"" \o years_text \o "\" OR \""
                     \o ToString(experience_years) \o "+ years\""
          ELSE IF experience_operator = "<"
          THEN query \o " \"less than " \o years_text
                     \o "\" OR \"junior\" OR \"entry level\""
          ELSE query \o " \"" \o years_text \o "\""
     ELSE query

\* search_profiles, lines 68-71: the query of one (location, position) pair is
\* built and handed to _execute_search; ">=" stands for any operator but ">"
\* and "<"
BuildProfileQuery ==
  /\ service = "linkedin_search"
  /\ Len(requests) < MaxRuns
  /\ \E position \in {"CEO", "CTO"}, location \in {"Paris", "Oslo"},
        experience_operator \in {">", "<", "=", ">="},
        experience_years \in {0, 1, 5} :
       requests' = Append(requests,
                          [position |-> position, location |-> location,
                           experience_operator |-> experience_operator,
                           experience_years |-> experience_years,
                           query |-> linkedin_build_search_query(
                                       position, location, experience_operator,
                                       experience_years)])
  /\ UNCHANGED <<service, s_pc, invocations, locations, positions, years_is_str, limit,
                 pair, profiles, max_results, page, results, processed_urls, extracted,
                 search_returned, search_query, orchestrator_vars, adapter_vars,
                 oauth_vars>>

NextProfileQuery == BuildProfileQuery

SpecProfileQuery == InitExtract /\ [][NextProfileQuery]_vars

(***************************************************************************)
(* LLMService.generate_leads (backend/services/llm_service.py:34-160), as  *)
(* a unit: the two requests of one invocation and what the text-generation *)
(* API answers to each.                                                    *)
(***************************************************************************)
\* line 66
DefaultSystemPrompt ==
  "You are a lead generation assistant. Generate realistic business leads based on the provided criteria. Return results as a JSON array."

\* what _generate_system_prompt writes when the request succeeds
GeneratedSystemPrompt == "You find leads for Acme."

\* what requests.post / response.json() can raise, and every other exception
LLMFailures == {"Timeout", "RequestException", "Exception"}

\* _generate_system_prompt, lines 162-285: the stripped text of the answer; every
\* failure gives None, which is empty for the test of line 64
_generate_system_prompt(outcome) ==
  IF outcome = "content" THEN GeneratedSystemPrompt ELSE ""

\* variant: the generated instruction is used as it comes
SystemPromptAsGenerated(generated) == generated

\* lines 64-66: "if not system_prompt" puts the default in its place
SystemPromptOrDefault(generated) ==
  IF generated = "" THEN DefaultSystemPrompt ELSE generated

\* a JSON value inside an array: an object with some of the fields, or anything else
JsonItems == {[type |-> "dict", fields |-> [company_name |-> sAb, contact_person |-> sC]],
              [type |-> "dict", fields |-> [company_name |-> sA]],
              [type |-> "dict", fields |-> EmptyMap],
              [type |-> "other", fields |-> EmptyMap]}

\* what json.loads makes of the text: it raises, or gives an array, an object or
\* another value
JsonValues ==
  {[kind |-> "malformed", items |-> <<>>], [kind |-> "scalar", items |-> <<>>]}
    \cup {[kind |-> "object", items |-> <<item>>] :
            item \in {x \in JsonItems : x.type = "dict"}}
    \cup {[kind |-> "array", items |-> items] : items \in SeqsUpTo(JsonItems, MaxItems)}

\* the placeholder for the text of an answer that has none
NoContent == [fence |-> "bare", json |-> [kind |-> "malformed", items |-> <<>>]]

\* lines 366-369: the text between the fences, or the text itself
Unfenced(content) == content.json

\* item.get(key, default)
GetOr(fields, key, default) == IF key \in DOMAIN fields THEN fields[key] ELSE default

\* lines 376-385 and 390-398
LeadOf(fields) ==
  Lead(GetOr(fields, "company_name", sUnknownCompany),
       GetOr(fields, "contact_person", sUnknown), "pure_llm")

RECURSIVE LeadsOf(_)
\* lines 374-386: the objects of the array, in order
LeadsOf(items) ==
  IF items = <<>> THEN <<>>
  ELSE IF Head(items).type = "dict"
       THEN <<LeadOf(Head(items).fields)>> \o LeadsOf(Tail(items))
       ELSE LeadsOf(Tail(items))

\* lines 359-408
_parse_llm_response(content) ==
  LET parsed == Unfenced(content)
  IN CASE parsed.kind = "array" -> LeadsOf(parsed.items)
       [] parsed.kind = "object" -> <<LeadOf(parsed.items[1].fields)>>
       [] OTHER -> <<>>

\* how the second request can end; the text of an answer is JSON text, bare or
\* inside a ```json or a ``` fence
Phase2Answers ==
  {[kind |-> k, content |-> NoContent] : k \in LLMFailures \cup {"status", "no_content"}}
    \cup {[kind |-> "content", content |-> [fence |-> fence, json |-> json]] :
            fence \in {"bare", "json", "plain"}, json \in JsonValues}

\* variant: only the exceptions of requests are handled
CaughtRequestsOnly(kind) == kind \in {"Timeout", "RequestException"}

\* lines 152-160: Timeout, RequestException and Exception each have a handler
Caught(kind) == kind \in {"Timeout"} \cup {"RequestException"} \cup LLMFailures

InitLLM ==
  /\ service = "pure_llm"
  /\ SearchIdle
  /\ OrchestratorIdle
  /\ api_key \in BOOLEAN
  /\ system_prompt = ""
  /\ places_leads = <<>>
  /\ OAuthAtRest

\* lines 53-55: generate_leads is entered; without an API key it returns at once
InvokeGenerateLeads ==
  /\ service = "pure_llm"
  /\ s_pc \in {"Idle", "Returned"}
  /\ invocations < MaxRuns
  /\ invocations' = invocations + 1
  /\ max_results' \in 0..MaxPerMethod
  /\ requests' = <<>>
  /\ system_prompt' = ""
  /\ IF api_key
     THEN s_pc' = "Phase1" /\ UNCHANGED search_returned
     ELSE s_pc' = "Returned" /\ search_returned' = <<>>
  /\ UNCHANGED <<service, locations, positions, years_is_str, limit, pair, profiles,
                 page, results, processed_urls, extracted, search_query,
                 orchestrator_vars, api_key, places_leads, oauth_vars>>

\* lines 57-66: the request of _generate_system_prompt and the choice of the
\* system prompt.  The request ends in an exception, a status other than 200, an
\* answer without text (no choices, empty or blank content) or an answer with text.
GenerateSystemPrompt ==
  /\ service = "pure_llm"
  /\ s_pc = "Phase1"
  /\ \E outcome \in LLMFailures \cup {"status", "no_content", "content"} :
       /\ requests' = Append(requests, [phase |-> 1, kind |-> outcome,
                                        content |-> NoContent, system |-> ""])
       /\ system_prompt' = SystemPromptOrDefault(_generate_system_prompt(outcome))
  /\ s_pc' = "Phase2"
  /\ UNCHANGED <<service, invocations, locations, positions, years_is_str, limit, pair,
                 profiles, max_results, page, results, processed_urls, extracted,
                 search_returned, search_query, orchestrator_vars, api_key,
                 places_leads, oauth_vars>>

\* lines 69-160: the request for the leads and what is made of its answer
RequestLeads ==
  /\ service = "pure_llm"
  /\ s_pc = "Phase2"
  /\ \E answer \in Phase2Answers :
       /\ requests' = Append(requests, [phase |-> 2, kind |-> answer.kind,
                                        content |-> answer.content,
                                        system |-> system_prompt])
       /\ IF answer.kind \in LLMFailures
          THEN IF Caught(answer.kind)
               THEN s_pc' = "Returned" /\ search_returned' = <<>>
               ELSE s_pc' = "Raised" /\ UNCHANGED search_returned
          ELSE /\ s_pc' = "Returned"
               /\ search_returned' =
                    IF answer.kind = "content"
                    THEN Slice(_parse_llm_response(answer.content), max_results)
                    ELSE <<>>
  /\ UNCHANGED <<service, invocations, locations, positions, years_is_str, limit, pair,
                 profiles, max_results, page, results, processed_urls, extracted,
                 search_query, orchestrator_vars, adapter_vars, oauth_vars>>

NextLLM ==
  \/ InvokeGenerateLeads
  \/ GenerateSystemPrompt
  \/ RequestLeads

SpecLLM == InitLLM /\ [][NextLLM]_vars

(***************************************************************************)
(* GooglePlacesService.search_businesses                                   *)
(* (backend/services/google_places_service.py:26-105) and the conversion   *)
(* of its businesses into leads by _process_method                         *)
(* (backend/services/workflow_orchestrator.py:166-185).  The local         *)
(* businesses of search_businesses is held in results.                     *)
(***************************************************************************)
sUnknownBusiness ==
  <<"U", "n", "k", "n", "o", "w", "n", " ", "B", "u", "s", "i", "n", "e", "s", "s">>

\* the places of an answer: an object with or without a displayName, or a value
\* _extract_business_info cannot read
Places == {[type |-> "dict", fields |-> [displayName |-> sAb]],
           [type |-> "dict", fields |-> [displayName |-> sA]],
           [type |-> "dict", fields |-> EmptyMap],
           [type |-> "other", fields |-> EmptyMap]}

\* _extract_business_info, lines 107-135, on a place it can read
Business(place) ==
  [company_name |-> GetOr(place.fields, "displayName", sUnknownBusiness)]

RECURSIVE Businesses(_)
\* lines 88-92: the businesses of the places, those giving None left out
Businesses(places) ==
  IF places = <<>> THEN <<>>
  ELSE IF Head(places).type = "dict"
       THEN <<Business(Head(places))>> \o Businesses(Tail(places))
       ELSE Businesses(Tail(places))

PlacesFailures == {"Timeout", "RequestException", "Exception"}

\* how the request can end
PlacesAnswers ==
  {[kind |-> k, places |-> <<>>] : k \in PlacesFailures \cup {"status"}}
    \cup {[kind |-> "places", places |-> places] : places \in SeqsUpTo(Places, MaxItems)}

\* variant: the contact of a lead is the name of the business
PlaceLeadNamed(business) ==
  [company_name |-> business.company_name, contact_person |-> business.company_name,
   contact_email |-> sEmpty, source |-> "google_places_api"]

\* workflow_orchestrator.py:174-185
PlaceLead(business) ==
  [company_name |-> business.company_name, contact_person |-> sContact,
   contact_email |-> sEmpty, source |-> "google_places_api"]

InitPlaces ==
  /\ service = "google_places_api"
  /\ SearchIdle
  /\ OrchestratorIdle
  /\ api_key \in BOOLEAN
  /\ system_prompt = ""
  /\ places_leads = <<>>
  /\ OAuthAtRest

\* lines 43-47: search_businesses is entered; without an API key it returns at once
InvokeSearchBusinesses ==
  /\ service = "google_places_api"
  /\ s_pc \in {"Idle", "Converted"}
  /\ invocations < MaxRuns
  /\ invocations' = invocations + 1
  /\ max_results' \in 0..MaxPerMethod
  /\ requests' = <<>>
  /\ results' = <<>>
  /\ IF api_key
     THEN s_pc' = "Searching" /\ UNCHANGED search_returned
     ELSE s_pc' = "Returned" /\ search_returned' = <<>>
  /\ UNCHANGED <<service, locations, positions, years_is_str, limit, pair, profiles,
                 page, processed_urls, extracted, search_query, orchestrator_vars,
                 adapter_vars, oauth_vars>>

\* lines 49-105: the one request, the loop over its places and the return
SearchBusinesses ==
  /\ service = "google_places_api"
  /\ s_pc = "Searching"
  /\ \E answer \in PlacesAnswers :
       /\ requests' = Append(requests, answer)
       /\ results' = IF answer.kind = "places"
                     THEN results \o Businesses(answer.places) ELSE results
  /\ search_returned' = Slice(results', max_results)
  /\ s_pc' = "Returned"
  /\ UNCHANGED <<service, invocations, locations, positions, years_is_str, limit, pair,
                 profiles, max_results, page, processed_urls, extracted, search_query,
                 orchestrator_vars, adapter_vars, oauth_vars>>

\* workflow_orchestrator.py:173-185: the businesses become leads
ConvertBusinesses ==
  /\ service = "google_places_api"
  /\ s_pc = "Returned"
  /\ places_leads' = [k \in DOMAIN search_returned |-> PlaceLead(search_returned[k])]
  /\ s_pc' = "Converted"
  /\ UNCHANGED <<service, invocations, locations, positions, years_is_str, limit, pair,
                 profiles, max_results, page, results, processed_urls, requests,
                 extracted, search_returned, search_query, orchestrator_vars, api_key,
                 system_prompt, oauth_vars>>

NextPlaces ==
  \/ InvokeSearchBusinesses
  \/ SearchBusinesses
  \/ ConvertBusinesses

SpecPlaces == InitPlaces /\ [][NextPlaces]_vars

(***************************************************************************)
(* The LinkedIn OAuth endpoints of backend/app.py: connect_linkedin        *)
(* (lines 720-767) and linkedin_callback (lines 769-803, up to the token   *)
(* exchange).  Both are coroutines that do not await between their first   *)
(* statement and the token exchange, so each runs as one step.  A state is *)
(* secrets.token_urlsafe(32): the model hands out tokens never used before.*)
(***************************************************************************)
\* most states handed out
MaxStates == 2
\* most callbacks received
MaxCallbacks == 3

Users == {"u1", "u2"}

\* the tokens a callback can carry
Tokens == 1..MaxStates

\* request.state in oauth_states, held as the set of its (state, user_id) entries
Stored(states, state) == \E e \in states : e.state = state

\* oauth_states[request.state]["user_id"]
OwnerOf(states, state) == (CHOOSE e \in states : e.state = state).user_id

\* variant: the state stays in the store
KeepState(states, state) == states

\* line 803: del oauth_states[request.state]
DeleteState(states, state) == {e \in states : e.state # state}

InitOAuth ==
  /\ service = "none"
  /\ SearchIdle
  /\ OrchestratorIdle
  /\ api_key \in BOOLEAN
  /\ system_prompt = ""
  /\ places_leads = <<>>
  /\ OAuthAtRest

\* connect_linkedin, lines 720-767; verified is the user_id verify_user found.  A
\* request that fails the tests of lines 729-738 is answered 403 or 500 and
\* changes nothing.
connect_linkedin ==
  /\ Len(issued) < MaxStates
  /\ \E user_id \in Users, verified \in Users :
       /\ user_id = verified
       /\ api_key
       /\ LET state == Len(issued) + 1
          IN /\ oauth_states' = DeleteState(oauth_states, state)
                                  \cup {[state |-> state, user_id |-> user_id]}
             /\ issued' = Append(issued, [state |-> state, user_id |-> user_id])
  /\ UNCHANGED <<search_query, search_vars, orchestrator_vars, adapter_vars, callbacks>>

\* linkedin_callback, lines 769-803 and the token exchange of lines 805-820
linkedin_callback ==
  /\ Len(callbacks) < MaxCallbacks
  /\ \E state \in Tokens, user_id \in Users, verified \in Users, exchange_ok \in BOOLEAN :
       LET owner == IF Stored(oauth_states, state)
                    THEN OwnerOf(oauth_states, state) ELSE "nobody"
           answered(answer, exchanged, states) ==
             /\ oauth_states' = states
             /\ callbacks' = Append(callbacks,
                                    [state |-> state, user_id |-> user_id,
                                     verified |-> verified, owner |-> owner,
                                     answer |-> answer, exchanged |-> exchanged,
                                     stored_after |-> Stored(states, state)])
       IN IF user_id # verified
          THEN answered("User ID mismatch", FALSE, oauth_states)
          ELSE IF ~api_key
          THEN answered("LinkedIn OAuth is not configured", FALSE, oauth_states)
          ELSE IF ~Stored(oauth_states, state)
          THEN answered("Invalid or expired state parameter", FALSE, oauth_states)
          ELSE IF owner # user_id
          THEN answered("State mismatch", FALSE, oauth_states)
          ELSE answered(IF exchange_ok THEN "exchanged"
                        ELSE "Failed to exchange authorization code",
                        TRUE, DeleteState(oauth_states, state))
  /\ UNCHANGED <<search_query, search_vars, orchestrator_vars, adapter_vars, issued>>

NextOAuth ==
  \/ connect_linkedin
  \/ linkedin_callback

SpecOAuth == InitOAuth /\ [][NextOAuth]_vars


(***************************************************************************)
(* Vocabulary of the properties.                                           *)
(***************************************************************************)
\* the for loop over methods has ended
LoopDone == pc \in {"Persisting", "Saving", "Returning", "Done", "Raised"}

\* _deduplicate_leads has returned
DedupDone == pc \in {"Persisting", "Saving", "Returning", "Done"}

Occurrences(seq, x) == Cardinality({k \in DOMAIN seq : seq[k] = x})

CallsOf(callee) == {k \in DOMAIN calls : calls[k].callee = callee}

SaveCalls == CallsOf("save_leads_and_companies")

\* the entries of errors that read "Error in method <method>: <message>"
MethodErrors(method) ==
  {k \in DOMAIN errors : \E message \in ExceptionMessages :
     errors[k] = ErrorInMethod(method, message)}

\* the entries of errors that read "Error saving to database: <message>"
SaveErrors ==
  {k \in DOMAIN errors : \E message \in SaveFailures : errors[k] = ErrorSaving(message)}

RaisedRuns(method) ==
  {k \in DOMAIN returned : returned[k].method = method /\ returned[k].raised}

\* the subsequence of L at the indices idx, in order
Pick(L, idx) ==
  [n \in 1..Cardinality(idx) |->
     L[CHOOSE k \in idx : Cardinality({m \in idx : m < k}) = n - 1]]

RECURSIVE Merged(_)
\* the lists the methods returned, concatenated in the order of the calls
Merged(outcomes) ==
  IF outcomes = <<>> THEN <<>> ELSE Head(outcomes).leads \o Merged(Tail(outcomes))

NonEmptyCompany(lead) == strip(lead.company_name) # <<>>

\* both components of the key agree
SamePair(a, b) ==
  /\ lower(strip(a.company_name)) = lower(strip(b.company_name))
  /\ lower(strip(a.contact_person)) = lower(strip(b.contact_person))

\* the adapter of a requested method has no credential (app.py:104-105,
\* llm_service.py:25)
IsEmptyOrSentinel(name) == name = <<>> \/ name = sUnknownCompany

NoCredential(method) ==
  \/ method = "google_places_api" /\ ~google_places_service
  \/ method = "pure_llm" /\ ~llm_api_key

(***************************************************************************)
(* C1: generate_leads always ends by returning a Workflow Result; no       *)
(* exception ever leaves it, whatever the adapters hand back (null fields  *)
(* included).  The code violates this: _deduplicate_leads calls strip()    *)
(* on a null company_name outside every try block.                         *)
(***************************************************************************)
C1_NoExceptionEscapes == pc # "Raised"

C3_SuccessIffPersisted ==
  pc = "Done" => (result.success <=> inserted > 0)

\* a method failed, one lead of the batch failed to be stored, another was stored
C3_Witness ==
  /\ pc = "Done"
  /\ result.success
  /\ result.errors # None
  /\ inserted = 1
  /\ Len(save_arg) = 2
  /\ \A k \in DOMAIN save_arg : ~SkipsLead(strip(save_arg[k].company_name))

(***************************************************************************)
(* C4 as stated: the persistence delegate is called exactly once in every  *)
(* run, after all methods, with the deduplicated batch, and no adapter is  *)
(* called after it.                                                        *)
(***************************************************************************)
C4_SavedExactlyOnce ==
  pc = "Done" =>
    /\ Cardinality(SaveCalls) = 1
    /\ calls[Len(calls)].callee = "save_leads_and_companies"
    /\ save_arg = deduplicated_leads

(***************************************************************************)
(* C4 as amended: the persistence delegate is called at most once per run: *)
(* once when the deduplicated batch is not empty, never when it is empty   *)
(* or when deduplication raised.  When it is called, every requested       *)
(* method has completed or failed, the argument is the full deduplicated   *)
(* batch, and no adapter is called after it.                               *)
(***************************************************************************)
C4_SavedOnceIfNonEmpty ==
  /\ Cardinality(SaveCalls) <= 1
  /\ pc \in {"Idle", "Querying", "Persisting", "Raised"} => SaveCalls = {}
  /\ pc \in {"Saving", "Returning", "Done"} =>
       (Cardinality(SaveCalls) = 1 <=> deduplicated_leads # <<>>)
  /\ SaveCalls # {} =>
       /\ calls[Len(calls)].callee = "save_leads_and_companies"
       /\ Len(returned) = Len(methods)
       /\ save_arg = deduplicated_leads
       /\ all_leads = Merged(returned)

\* a returned run whose delegate call followed two methods and got a smaller batch
C4_Witness ==
  /\ pc = "Done"
  /\ Cardinality(SaveCalls) = 1
  /\ Len(methods) = 2
  /\ Len(calls) = 3
  /\ Len(save_arg) < Len(all_leads)

(***************************************************************************)
(* C5: when the call of the persistence delegate raises, generate_leads    *)
(* catches it, appends one "Error saving to database: <message>" entry,    *)
(* still returns, and reports no more leads_created than were inserted.    *)
(***************************************************************************)
C5_SaveFailureCaught ==
  (\E k \in SaveCalls : calls[k].raised) =>
    /\ pc = "Done" \/ (pc = "Returning" /\ ENABLED Return)
    /\ Cardinality(SaveErrors) = 1
    /\ errors[Len(errors)] = ErrorSaving("delegate unavailable")
    /\ pc = "Done" =>
         /\ result.errors = errors
         /\ result.leads_created <= inserted
         /\ ~result.success

\* the delegate call raised after one method had failed too
C5_Witness ==
  /\ pc = "Done"
  /\ \E k \in SaveCalls : calls[k].raised
  /\ Len(result.errors) = 2
  /\ result.total_leads_found > 0

(***************************************************************************)
(* C6: a method name outside the four known ones is handled as an adapter  *)
(* exception: no adapter is called for it, it has count 0, errors gets one *)
(* "Error in method <name>: Unknown method: <name>" entry per occurrence,  *)
(* and the other methods of the list are still processed.                  *)
(***************************************************************************)
C6_UnknownMethod ==
  LoopDone =>
    \A u \in UnknownMethods :
      Occurrences(methods, u) > 0 =>
        /\ CallsOf(u) = {}
        /\ method_results[u] = 0
        /\ Occurrences(errors, ErrorInMethod(u, "Unknown method: " \o u))
             = Occurrences(methods, u)
        /\ Cardinality(MethodErrors(u)) = Occurrences(methods, u)
        /\ Len(returned) = Len(methods)
        /\ \A k \in DOMAIN methods :
             /\ returned[k].method = methods[k]
             /\ methods[k] = u => returned[k].raised
        /\ pc = "Done" => result.method_results[u] = 0

\* an unknown name first, then a known method whose leads were found and stored
C6_Witness ==
  /\ pc = "Done"
  /\ Len(methods) = 2
  /\ methods[1] \in UnknownMethods
  /\ methods[2] \in KnownMethods
  /\ result.method_results[methods[2]] = 2
  /\ result.leads_created > 0
  /\ Len(result.errors) = 1

(***************************************************************************)
(* C7: a requested method whose adapter has no API credential reports 0    *)
(* results and adds no entry to errors.  The code violates this for        *)
(* google_places_api: without the key app.py passes no service at all and  *)
(* _process_method raises.                                                 *)
(***************************************************************************)
C7_MissingCredentialIsSoft ==
  LoopDone =>
    \A k \in DOMAIN methods :
      NoCredential(methods[k]) =>
        /\ method_results[methods[k]] = 0
        /\ MethodErrors(methods[k]) = {}

(***************************************************************************)
(* C8 as stated: the deduplicated batch is the merged list (methods in     *)
(* order, each method's candidates in order) without the candidates whose  *)
(* key occurred earlier.                                                   *)
(***************************************************************************)
C8_FirstSeenWinsOnly ==
  DedupDone =>
    /\ all_leads = Merged(returned)
    /\ deduplicated_leads =
         Pick(all_leads,
              {k \in DOMAIN all_leads :
                 \A m \in 1..(k - 1) : DedupKey(all_leads[m]) # DedupKey(all_leads[k])})

(***************************************************************************)
(* C8 as amended: the deduplicated batch is the merged list (methods in    *)
(* order, each method's candidates in order) without the candidates whose  *)
(* trimmed company_name is empty and without those whose key is the key of *)
(* an earlier candidate with a non-empty company_name; the kept candidates *)
(* keep their relative order, so of the candidates sharing a key the one   *)
(* of the earliest-processed method is kept.                               *)
(***************************************************************************)
C8_FirstSeenWins ==
  DedupDone =>
    /\ all_leads = Merged(returned)
    /\ deduplicated_leads =
         Pick(all_leads,
              {k \in DOMAIN all_leads :
                 /\ NonEmptyCompany(all_leads[k])
                 /\ \A m \in 1..(k - 1) :
                      NonEmptyCompany(all_leads[m])
                        => DedupKey(all_leads[m]) # DedupKey(all_leads[k])})

\* two methods returned the same company and contact in different spelling, and a
\* candidate without a company name was merged too
C8_Witness ==
  /\ DedupDone
  /\ Len(returned) = 2
  /\ Len(all_leads) = 3
  /\ ~NonEmptyCompany(all_leads[1])
  /\ all_leads[2].source # all_leads[3].source
  /\ all_leads[2] # all_leads[3]
  /\ deduplicated_leads = <<all_leads[2]>>

(***************************************************************************)
(* C9: the key is the pair (lowercased trimmed company_name, lowercased    *)
(* trimmed contact_person): a candidate with a company name is dropped iff *)
(* an earlier candidate agrees with it in both components.  The code       *)
(* violates this: it joins the two components with "|" into one string,    *)
(* so ("a|b", "c") and ("a", "b|c") get the same key.                      *)
(***************************************************************************)
C9_KeyIsThePair ==
  DedupDone =>
    deduplicated_leads =
      Pick(all_leads,
           {k \in DOMAIN all_leads :
              /\ NonEmptyCompany(all_leads[k])
              /\ \A m \in 1..(k - 1) : ~SamePair(all_leads[m], all_leads[k])})

(***************************************************************************)
(* C10 as stated: no candidate whose company_name is empty or "Unknown     *)
(* Company" is in the deduplicated batch.                                  *)
(***************************************************************************)
C10_SentinelDroppedByDedup ==
  DedupDone =>
    \A k \in DOMAIN deduplicated_leads :
      /\ NonEmptyCompany(deduplicated_leads[k])
      /\ strip(deduplicated_leads[k].company_name) # sUnknownCompany

(***************************************************************************)
(* C10 as amended: no candidate whose trimmed company_name is empty is in  *)
(* the deduplicated batch.  A candidate named "Unknown Company" stays in   *)
(* the batch, is counted in total_leads_found and is handed to the         *)
(* persistence delegate, which skips it: no lead row and no company row is *)
(* ever written for it.                                                    *)
(***************************************************************************)
C10_SentinelNeverStored ==
  /\ DedupDone => \A k \in DOMAIN deduplicated_leads : NonEmptyCompany(deduplicated_leads[k])
  /\ \A k \in DOMAIN lead_rows : ~IsEmptyOrSentinel(lead_rows[k].company_name)
  /\ \A k \in DOMAIN company_rows : ~IsEmptyOrSentinel(company_rows[k])
  /\ pc = "Done" => result.total_leads_found = Len(deduplicated_leads)

\* the batch handed to the delegate held an "Unknown Company" candidate and a real
\* one; a row was written for the real one only
C10_Witness ==
  /\ pc = "Done"
  /\ \E k \in DOMAIN all_leads : ~NonEmptyCompany(all_leads[k])
  /\ Len(save_arg) = 2
  /\ result.total_leads_found = 2
  /\ \E k \in DOMAIN save_arg : save_arg[k].company_name = sUnknownCompany
  /\ \E k \in SaveCalls : ~calls[k].raised
  /\ inserted = 1

(***************************************************************************)
(* C11: deduplication is idempotent and never grows its input: for every   *)
(* merged list on which _deduplicate_leads returns, deduplicating the      *)
(* result again gives the same list, the result is no longer than the      *)
(* merged list, and the result for the empty list is empty.                *)
(***************************************************************************)
C11_DedupIdempotent ==
  DedupDone =>
    /\ _deduplicate_leads(deduplicated_leads) = deduplicated_leads
    /\ Len(deduplicated_leads) <= Len(all_leads)
    /\ all_leads = <<>> => deduplicated_leads = <<>>

\* three candidates with one key and a fourth with another were merged; one of each
\* key is left
C11_Witness ==
  /\ DedupDone
  /\ Len(all_leads) = 4
  /\ Len(deduplicated_leads) = 2
  /\ Cardinality({DedupKey(all_leads[k]) : k \in DOMAIN all_leads}) = 2
  /\ \E k \in DOMAIN all_leads :
       Cardinality({m \in DOMAIN all_leads : DedupKey(all_leads[m]) = DedupKey(all_leads[k])}) = 3

(***************************************************************************)
(* C12: a run with an empty methods list calls no adapter and not the      *)
(* persistence delegate, and returns success = false, leads_created = 0,   *)
(* an empty method_results and errors = None.                              *)
(***************************************************************************)
C12_EmptyMethods ==
  methods = <<>> =>
    /\ calls = <<>>
    /\ pc # "Raised"
    /\ pc = "Returning" => ENABLED Return
    /\ pc = "Done" =>
         /\ result.success = FALSE
         /\ result.leads_created = 0
         /\ result.method_results = EmptyMap
         /\ result.errors = None

\* the run with no method has returned; the store held rows before it
C12_Witness ==
  /\ pc = "Done"
  /\ methods = <<>>
  /\ i = 1
  /\ lead_rows # <<>>

\* the run asked for google_places_api alone, the adapter returned places that all
\* have a name, and every lead handed to the delegate was stored
PlacesOnlyAllAccepted ==
  /\ pc = "Done"
  /\ methods = <<"google_places_api">>
  /\ ~returned[1].raised
  /\ \A k \in DOMAIN returned[1].leads : NonEmptyCompany(returned[1].leads[k])
  /\ \A k \in SaveCalls : ~calls[k].raised
  /\ inserted = Len(save_arg)

PlacesOnlyResult(n) ==
  /\ result.leads_created = n
  /\ result.method_results = Put(EmptyMap, "google_places_api", n)
  /\ result.errors = None

(***************************************************************************)
(* C13 as stated: when google_places_api is the only method, the adapter   *)
(* returns n places with non-empty names and the delegate accepts every    *)
(* lead it is given, the result has leads_created = n, method_results =    *)
(* {google_places_api: n} and errors = None.                               *)
(***************************************************************************)
C13_AllPlacesCreated ==
  PlacesOnlyAllAccepted => PlacesOnlyResult(Len(returned[1].leads))

(***************************************************************************)
(* C13 as amended: the same, for n places whose names are non-empty and    *)
(* pairwise different after trimming and lowercasing.                      *)
(***************************************************************************)
C13_DistinctPlacesCreated ==
  ( /\ PlacesOnlyAllAccepted
    /\ \A a, b \in DOMAIN returned[1].leads :
         a # b => DedupKey(returned[1].leads[a]) # DedupKey(returned[1].leads[b]) )
    => PlacesOnlyResult(Len(returned[1].leads))

\* two places with different names were returned and both were stored
C13_Witness ==
  /\ PlacesOnlyAllAccepted
  /\ Len(returned[1].leads) = 2
  /\ DedupKey(returned[1].leads[1]) # DedupKey(returned[1].leads[2])
  /\ result.leads_created = 2
  /\ inserted = 2

\* the candidates of the merged list that came from the method
Contribution(method) == {k \in DOMAIN all_leads : all_leads[k].source = method}

(***************************************************************************)
(* C14 as stated: every requested method contributes at most               *)
(* max_results_per_method candidates to the merged list, and its entry of  *)
(* method_results is at most max_results_per_method.                       *)
(***************************************************************************)
C14_CappedPerMethod ==
  \A m \in DOMAIN method_results :
    /\ Cardinality(Contribution(m)) <= max_results_per_method
    /\ method_results[m] <= max_results_per_method

(***************************************************************************)
(* C14 as amended: every call of a method's adapter contributes at most    *)
(* max_results_per_method candidates to the merged list, whatever the      *)
(* external service answered, and every entry of method_results is at most *)
(* max_results_per_method; a method that the list names k times            *)
(* contributes at most k times max_results_per_method candidates.          *)
(***************************************************************************)
C14_CappedPerCall ==
  /\ \A k \in DOMAIN returned : Len(returned[k].leads) <= max_results_per_method
  /\ \A m \in DOMAIN method_results :
       /\ method_results[m] <= max_results_per_method
       /\ Cardinality(Contribution(m))
            <= Cardinality({k \in DOMAIN returned : returned[k].method = m})
                 * max_results_per_method
  /\ pc = "Done" =>
       \A m \in DOMAIN result.method_results :
         result.method_results[m] <= max_results_per_method

\* the service answered more items than max_results_per_method and the adapter
\* handed back exactly max_results_per_method of them
C14_Witness ==
  /\ pc = "Done"
  /\ max_results_per_method = 1
  /\ Len(returned) = 2
  /\ \A k \in DOMAIN returned :
       /\ returned[k].offered > max_results_per_method
       /\ Len(returned[k].leads) = max_results_per_method
  /\ result.method_results[methods[1]] = 1

\* the fields of the claim, in the order of the claim
SevenFields == <<"company_type", "target_industry", "locations", "keywords",
                 "company_size", "technology_stack", "funding_stage">>

\* the non-empty values among the fields, in order
NonEmptyValues(fields) ==
  SelectSeq([k \in DOMAIN fields |-> Get(preferences, fields[k])], LAMBDA v : v # "")

\* the value of the locations slot: locations, or geographic_region when
\* locations is empty or absent
LocationsSlot ==
  IF Get(preferences, "locations") # "" THEN Get(preferences, "locations")
  ELSE Get(preferences, "geographic_region")

\* search_query is the members of values joined by single spaces
JoinedBySpaces(values) ==
  \/ Len(values) = 1 /\ search_query = values[1]
  \/ Len(values) > 1 /\ search_query = Join(values)

(***************************************************************************)
(* C15 as stated: _build_search_query returns the non-empty values among   *)
(* company_type, target_industry, locations, keywords, company_size,       *)
(* technology_stack, funding_stage, in that order, joined by single        *)
(* spaces, and "businesses" when all seven are empty or absent.            *)
(***************************************************************************)
C15_SevenFieldsJoined ==
  pc = "Built" =>
    IF NonEmptyValues(SevenFields) = <<>>
    THEN search_query = "businesses"
    ELSE JoinedBySpaces(NonEmptyValues(SevenFields))

(***************************************************************************)
(* C15 as amended: the same, with the value of geographic_region taking    *)
(* the place of locations when locations is empty or absent; the result is *)
(* "businesses" only when the seven fields and geographic_region are all   *)
(* empty or absent.  An absent field never makes the function fail.        *)
(***************************************************************************)
C15_QueryWithRegionFallback ==
  pc = "Built" =>
    LET values ==
          SelectSeq(<<Get(preferences, "company_type"), Get(preferences, "target_industry"),
                      LocationsSlot, Get(preferences, "keywords"),
                      Get(preferences, "company_size"),
                      Get(preferences, "technology_stack"),
                      Get(preferences, "funding_stage")>>, LAMBDA v : v # "")
    IN /\ (values = <<>>) <=> (search_query = "businesses")
       /\ values # <<>> => JoinedBySpaces(values)

\* locations is absent and geographic_region set, keywords is empty, two more fields
\* are set
C15_Witness ==
  /\ pc = "Built"
  /\ DOMAIN preferences = {"company_type", "keywords", "funding_stage", "geographic_region"}
  /\ preferences["keywords"] = ""
  /\ search_query = "private EMEA seed"

(***************************************************************************)
(* C16: the store never holds two lead rows with the same company_name and *)
(* contact_person (one tenant), however many batches are saved.  The code  *)
(* violates this: _create_lead looks for an existing row only when         *)
(* contact_person is not empty, and stores an empty contact_person as      *)
(* "Unknown".                                                              *)
(***************************************************************************)
C16_NoDuplicateRows ==
  \A a, b \in DOMAIN lead_rows : a # b => lead_rows[a] # lead_rows[b]

\* q is an initial part of r
IsPrefix(q, r) == Len(q) <= Len(r) /\ SubSeq(r, 1, Len(q)) = q

\* the requests of this invocation that ended in an exception
FailedRequests == {k \in DOMAIN requests : requests[k].raised}

(***************************************************************************)
(* C17: in search_profiles a query that fails (timeout, HTTP error, any    *)
(* other exception) is skipped: it is not issued again, the profiles       *)
(* collected before it are kept, the loop goes on with the next            *)
(* (location, position) pair, and the invocation does not raise.  Each     *)
(* pair of the nested loops is queried at most once per invocation.        *)
(***************************************************************************)
C17_FailedQuerySkipped ==
  service = "linkedin_search" =>
    /\ \A a, b \in DOMAIN requests : a # b => requests[a].pair # requests[b].pair
    /\ \A k \in DOMAIN requests : requests[k].pair \in 1..NumPairs
    /\ \A k \in FailedRequests :
         /\ IsPrefix(requests[k].collected, profiles)
         /\ k < Len(requests) =>
              /\ requests[k + 1].pair = requests[k].pair + 1
              /\ requests[k + 1].collected = requests[k].collected
         /\ k = Len(requests) =>
              /\ profiles = requests[k].collected
              /\ pair = requests[k].pair + 1
              /\ s_pc = "Searching" => ENABLED (SearchPair \/ ReturnProfiles)
         /\ s_pc \in {"Searching", "Returned"}
         /\ s_pc = "Returned" => IsPrefix(requests[k].collected, search_returned)

\* a query succeeded, the next failed, the one after it added a second profile, and
\* the invocation returned both
C17_Witness ==
  /\ service = "linkedin_search"
  /\ s_pc = "Returned"
  /\ Len(requests) = 3
  /\ FailedRequests = {2}
  /\ Len(requests[2].collected) = 1
  /\ Len(search_returned) = 2

(***************************************************************************)
(* C18: search_profiles returns at most limit profiles, and once limit     *)
(* profiles are collected it issues no further search request and hands no *)
(* further item to the extraction.                                         *)
(***************************************************************************)
C18_StopsAtLimit ==
  service = "linkedin_search" =>
    /\ Len(profiles) <= limit
    /\ s_pc = "Returned" => search_returned = profiles
    /\ \A k \in DOMAIN requests : Len(requests[k].collected) < limit
    /\ \A k \in DOMAIN extracted : Len(extracted[k].collected) < limit

\* the first answer held two new profiles and limit is 1: one item was extracted,
\* the three remaining pairs were never queried
C18_Witness ==
  /\ service = "linkedin_search"
  /\ s_pc = "Returned"
  /\ limit = 1
  /\ NumPairs = 4
  /\ Len(requests) = 1
  /\ requests[1].links = <<uA, uB>>
  /\ Len(extracted) = 1
  /\ search_returned = <<[url |-> uA]>>

(***************************************************************************)
(* C19: search asks for the pages 1, 11, 21, ... of at most 10 results     *)
(* each, and asks for no further page once max_results results are         *)
(* collected or once a page came back without items.  The code violates    *)
(* the last part: after a page without items it goes on to the next page.  *)
(***************************************************************************)
C19_PagingStops ==
  service = "google_custom_search" =>
    \A k \in DOMAIN requests :
      /\ requests[k].start = ((k - 1) * 10) + 1
      /\ requests[k].num \in 1..10
      /\ Len(requests[k].collected) < max_results
      /\ k > 1 => requests[k - 1].links # <<>>

\* the URLs handed to the extraction, in order
ExtractedUrls == [k \in DOMAIN extracted |-> extracted[k].url]

NoRepeat(seq) == \A a, b \in DOMAIN seq : a # b => seq[a] # seq[b]

(***************************************************************************)
(* C20: within one invocation of search_profiles or of search every result *)
(* URL is handed to the extraction at most once, no two emitted candidates *)
(* carry the same URL, and the set of processed URLs starts empty in every *)
(* invocation: it holds exactly the URLs handed to the extraction since    *)
(* the invocation began.                                                   *)
(***************************************************************************)
C20_EachUrlOnce ==
  /\ NoRepeat(ExtractedUrls)
  /\ processed_urls = {extracted[k].url : k \in DOMAIN extracted}
  /\ s_pc = "Searching" /\ requests = <<>> => processed_urls = {}
  /\ NoRepeat([k \in DOMAIN profiles |-> profiles[k].url])
  /\ NoRepeat([k \in DOMAIN results |-> results[k].website])
  /\ service = "linkedin_search" =>
       NoRepeat([k \in DOMAIN search_returned |-> search_returned[k].url])
  /\ service = "google_custom_search" =>
       NoRepeat([k \in DOMAIN search_returned |-> search_returned[k].website])

\* second invocation of search: the first had returned the URL, and now two pages
\* held it again; it was extracted once
C20_Witness ==
  /\ service = "google_custom_search"
  /\ invocations = 2
  /\ s_pc = "Searching"
  /\ search_returned = <<[website |-> uX]>>
  /\ Len(requests) = 2
  /\ requests[1].links = <<uX, uX>>
  /\ requests[2].links = <<uA, uX>>
  /\ results = <<[website |-> uX], [website |-> uA]>>

(***************************************************************************)
(* The profile query (SpecProfileQuery)                                    *)
(***************************************************************************)
\* the experience clause the query must end with
ExperienceClause(op, n) ==
  IF n = 0 THEN ""
  ELSE CASE op = ">" -> " \"" \o ToString(n) \o " years\" OR \"" \o ToString(n) \o "+ years\""
         [] op = "<" -> " \"less than " \o ToString(n) \o " years\" OR \"junior\" OR \"entry level\""
         [] OTHER -> " \"" \o ToString(n) \o " years\""

\* C22: every query built starts with site:linkedin.com/in <position> <location>;
\* for N > 0 years it goes on with "N years" OR "N+ years" for the operator ">",
\* with "less than N years" OR "junior" OR "entry level" for "<", and with "N
\* years" alone for any other operator; for 0 years nothing follows.
C22_QueryShape ==
  \A k \in DOMAIN requests :
    LET r == requests[k]
    IN r.query = "site:linkedin.com/in " \o r.position \o " " \o r.location
                   \o ExperienceClause(r.experience_operator, r.experience_years)

\* a query was built for "<" with 5 years and one for ">" with 0 years
C22_Witness ==
  /\ \E k \in DOMAIN requests :
       /\ requests[k].experience_operator = "<"
       /\ requests[k].experience_years = 5
       /\ requests[k].query
            = "site:linkedin.com/in CEO Paris \"less than 5 years\" OR \"junior\" OR \"entry level\""
  /\ \E k \in DOMAIN requests :
       /\ requests[k].experience_operator = ">"
       /\ requests[k].experience_years = 0
       /\ requests[k].query = "site:linkedin.com/in CEO Paris"

(***************************************************************************)
(* The counts of the Workflow Result (Spec)                                *)
(***************************************************************************)
RECURSIVE SumOver(_, _)
\* the sum of the values of a map over a set of its keys
SumOver(map, keys) ==
  IF keys = {} THEN 0
  ELSE LET k == CHOOSE x \in keys : TRUE
       IN map[k] + SumOver(map, keys \ {k})

SumOfValues(map) == SumOver(map, DOMAIN map)

RequestedNames == {methods[k] : k \in DOMAIN methods}

\* C28 as stated: in every result, leads_created <= total_leads_found <= the
\* sum of the values of method_results, and method_results has an entry for
\* every requested method name.
C28_CountsOrdered ==
  pc = "Done" =>
    /\ result.leads_created <= result.total_leads_found
    /\ result.total_leads_found <= SumOfValues(result.method_results)
    /\ RequestedNames \subseteq DOMAIN result.method_results

(***************************************************************************)
(* The counts of save_leads_and_companies (SpecSaves)                      *)
(***************************************************************************)
\* C29: while save_leads_and_companies runs, companies_created grows by one
\* exactly when a company row is inserted: a company that exists already, or
\* that an earlier lead of the batch created, is not counted again.
C29_CountsOnlyCreated ==
  [][pc = "Saving" =>
       companies_created' - companies_created = Len(company_rows') - Len(company_rows)]_vars

(***************************************************************************)
(* The LLM adapter (SpecLLM)                                               *)
(***************************************************************************)
\* generate_leads has returned after passing the API key test
LLMReturned == service = "pure_llm" /\ s_pc = "Returned" /\ api_key /\ invocations > 0

\* C25: with an API key, generate_leads never returns before it has issued the
\* phase-2 request, and whenever the instruction generation ended in a timeout,
\* another exception, a non-success status or an answer without text, the
\* phase-2 request carries the hard-coded generic instruction as system prompt.
C25_Phase2AlwaysIssued ==
  /\ LLMReturned =>
       /\ Len(requests) = 2
       /\ requests[1].phase = 1
       /\ requests[2].phase = 2
  /\ \A k \in DOMAIN requests :
       requests[k].phase = 2 =>
         /\ k = 2
         /\ requests[1].kind # "content" => requests[k].system = DefaultSystemPrompt
         /\ requests[1].kind = "content" => requests[k].system = GeneratedSystemPrompt

\* the instruction generation timed out and the phase-2 request, carrying the
\* generic instruction, brought leads
C25_Witness ==
  /\ LLMReturned
  /\ requests[1].kind = "Timeout"
  /\ requests[2].system = DefaultSystemPrompt
  /\ search_returned # <<>>

\* C26: generate_leads never raises; a timeout, another exception, a non-200
\* status, an answer without extractable text or with malformed JSON each give
\* the empty list; otherwise the leads of the answer come back in the order of
\* the answer, at most max_results of them, from a top-level array as well as
\* from a single object.
C26_NeverRaisesAndTruncates ==
  /\ s_pc # "Raised"
  /\ (service = "pure_llm" /\ s_pc = "Returned" /\ ~api_key) =>
       search_returned = <<>> /\ requests = <<>>
  /\ LLMReturned =>
       LET answer == requests[2]
           json == answer.content.json
           n == IF json.kind = "array" THEN Len(LeadsOf(json.items))
                ELSE IF json.kind = "object" THEN 1 ELSE 0
       IN /\ answer.kind # "content" => search_returned = <<>>
          /\ answer.kind = "content" =>
               /\ Len(search_returned) = (IF n < max_results THEN n ELSE max_results)
               /\ json.kind = "array" =>
                    \A k \in DOMAIN search_returned :
                      search_returned[k] = LeadsOf(json.items)[k]
               /\ json.kind = "object" =>
                    \A k \in DOMAIN search_returned :
                      search_returned[k] = LeadOf(json.items[1].fields)
               /\ json.kind \in {"malformed", "scalar"} => search_returned = <<>>

\* an array of two objects inside a ```json fence came back and max_results = 1
\* cut it to its first lead
C26_Witness ==
  /\ LLMReturned
  /\ max_results = 1
  /\ requests[2].kind = "content"
  /\ requests[2].content.fence = "json"
  /\ requests[2].content.json.kind = "array"
  /\ Len(LeadsOf(requests[2].content.json.items)) = 2
  /\ search_returned = <<Lead(sA, sUnknown, "pure_llm")>>

(***************************************************************************)
(* The places adapter (SpecPlaces)                                         *)
(***************************************************************************)
\* C27: search_businesses never raises; without an API key it returns the empty
\* list and issues no request; after a timeout, a status other than 200 or any
\* other error it returns the businesses collected so far; every lead built from
\* a returned place has contact_person "Contact" and an empty contact_email.
C27_PlacesDegrade ==
  /\ s_pc # "Raised"
  /\ (service = "google_places_api" /\ ~api_key) =>
       requests = <<>> /\ search_returned = <<>> /\ places_leads = <<>>
  /\ (service = "google_places_api" /\ s_pc \in {"Returned", "Converted"} /\ api_key) =>
       /\ Len(requests) = 1
       /\ search_returned = Slice(results, max_results)
       /\ requests[1].kind # "places" => results = <<>> /\ search_returned = <<>>
  /\ (service = "google_places_api" /\ s_pc = "Converted") =>
       /\ Len(places_leads) = Len(search_returned)
       /\ \A k \in DOMAIN places_leads :
            /\ places_leads[k].company_name = search_returned[k].company_name
            /\ places_leads[k].contact_person = sContact
            /\ places_leads[k].contact_email = sEmpty

\* two places came back, one of them without a name, and both became leads
C27_Witness ==
  /\ service = "google_places_api"
  /\ s_pc = "Converted"
  /\ api_key
  /\ Len(places_leads) = 2
  /\ places_leads[2].company_name = sUnknownBusiness
  /\ places_leads[1].contact_person = sContact

(***************************************************************************)
(* The OAuth state (SpecOAuth)                                             *)
(***************************************************************************)
\* the callbacks that reached the token exchange with a given state
Exchanges(state) ==
  {k \in DOMAIN callbacks : callbacks[k].state = state /\ callbacks[k].exchanged}

\* the callback passed the user verification of lines 776-777
ByItsUser(k) == callbacks[k].user_id = callbacks[k].verified

\* C30: a state reaches the token exchange at most once, and only in a callback
\* of the user it was issued to; after that callback every later callback of a
\* verified user with the same state is answered "Invalid or expired state
\* parameter"; a callback of another verified user on a stored state is
\* answered "State mismatch", does not reach the token exchange and leaves the
\* state stored.
C30_StateSingleUse ==
  /\ \A state \in Tokens : Cardinality(Exchanges(state)) <= 1
  /\ \A k \in DOMAIN callbacks :
       callbacks[k].exchanged =>
         /\ callbacks[k].state <= Len(issued)
         /\ issued[callbacks[k].state].user_id = callbacks[k].user_id
         /\ ByItsUser(k)
         /\ ~callbacks[k].stored_after
  /\ \A k \in DOMAIN callbacks, l \in DOMAIN callbacks :
       (/\ k < l
        /\ callbacks[k].exchanged
        /\ callbacks[l].state = callbacks[k].state
        /\ ByItsUser(l))
         => callbacks[l].answer = "Invalid or expired state parameter"
  /\ \A k \in DOMAIN callbacks :
       (/\ ByItsUser(k)
        /\ callbacks[k].owner \in Users
        /\ callbacks[k].owner # callbacks[k].user_id)
         => /\ callbacks[k].answer = "State mismatch"
            /\ ~callbacks[k].exchanged
            /\ callbacks[k].stored_after

\* another user tried the state and was answered "State mismatch", then its
\* owner used it, then the owner tried it again and was answered "Invalid or
\* expired state parameter"
C30_Witness ==
  /\ Len(callbacks) = 3
  /\ callbacks[1].state = 1 /\ callbacks[2].state = 1 /\ callbacks[3].state = 1
  /\ callbacks[1].answer = "State mismatch"
  /\ callbacks[1].stored_after
  /\ callbacks[2].exchanged
  /\ callbacks[3].user_id = callbacks[2].user_id
  /\ callbacks[3].answer = "Invalid or expired state parameter"

(***************************************************************************)
(* The extraction heuristics (SpecExtract)                                 *)
(***************************************************************************)
\* the extractions made so far on the title "LinkedIn Profile" with the snippet
\* "View profile"
BareExtractions ==
  {k \in DOMAIN extracted :
     /\ extracted[k].item.title = tLinkedInProfile
     /\ extracted[k].item.snippet = tViewProfile}

\* C21 as stated: no collected profile has the name "Unknown" together with the
\* company "Unknown Company", and a result with title "LinkedIn Profile" and
\* snippet "View profile" never yields a candidate.
C21_BareResultYieldsNothing ==
  /\ \A k \in DOMAIN profiles :
       ~(profiles[k].name = "Unknown" /\ profiles[k].company = "Unknown Company")
  /\ \A k \in BareExtractions : extracted[k].profile.none

\* C21 amended: no collected profile has the name "Unknown" together with the
\* company "Unknown Company"; a result with title "LinkedIn Profile" and snippet
\* "View profile" yields no candidate when its URL spells no name, and yields a
\* candidate named after the URL, with company "Unknown Company", when it does.
C21_MinimumInformation ==
  /\ \A k \in DOMAIN profiles :
       ~(profiles[k].name = "Unknown" /\ profiles[k].company = "Unknown Company")
  /\ \A k \in BareExtractions :
       LET e == extracted[k]
       IN IF InProfileUrl(e.item.link) /\ NameInUrl(e.item.link) # ""
          THEN /\ ~e.profile.none
               /\ e.profile.name = NameInUrl(e.item.link)
               /\ e.profile.company = "Unknown Company"
          ELSE e.profile.none

\* a bare result with a profile URL that spells no name was discarded, and a
\* profile with the name "Unknown" and a company was collected
C21_Witness ==
  /\ \E k \in BareExtractions :
       extracted[k].item.link = uA /\ extracted[k].profile.none
  /\ \E k \in DOMAIN profiles :
       profiles[k].name = "Unknown" /\ profiles[k].company # "Unknown Company"

\* C23: for each of name, company and role, a plausible match in the title is
\* what the extraction returns, whatever the snippet yields; the fallback is
\* used only when neither text yields a match.
C23_TitleBeforeSnippet ==
  \A k \in DOMAIN extracted :
    LET e == extracted[k]
        t == e.item.title
        sn == e.item.snippet
    IN ~e.profile.none =>
         /\ NameIn(t) # "" => e.profile.name = NameIn(t)
         /\ CompanyIn(t) # "" => e.profile.company = CompanyIn(t)
         /\ RoleIn(t) # "" => e.profile.role = RoleIn(t)
         /\ e.profile.name \in {"Unknown", NameInUrl(e.item.link)}
              => NameIn(t) = "" /\ NameIn(sn) = ""
         /\ e.profile.company = "Unknown Company"
              => CompanyIn(t) = "" /\ CompanyIn(sn) = ""
         /\ e.profile.role \in {"Unknown Role", e.position}
              => RoleIn(t) = "" /\ RoleIn(sn) = ""

SameTriple(a, b) == a.item = b.item

SameFields(a, b) ==
  /\ a.profile.none = b.profile.none
  /\ a.profile.name = b.profile.name
  /\ a.profile.company = b.profile.company
  /\ a.profile.role = b.profile.role

\* C24 as stated: two extractions of the same (title, snippet, url) give the
\* same name, company and role.
C24_FunctionOfTriple ==
  \A a \in DOMAIN extracted, b \in DOMAIN extracted :
    SameTriple(extracted[a], extracted[b]) => SameFields(extracted[a], extracted[b])

\* C24 amended: two extractions of the same (title, snippet, url) give the same
\* name and company and agree on whether a profile is built; they give the same
\* role when they were made for the same searched position, or when the snippet
\* or the title yields a role.
C24_FunctionOfTripleAndPosition ==
  \A a \in DOMAIN extracted, b \in DOMAIN extracted :
    LET x == extracted[a]
        y == extracted[b]
    IN SameTriple(x, y) =>
         /\ x.profile.none = y.profile.none
         /\ x.profile.name = y.profile.name
         /\ x.profile.company = y.profile.company
         /\ (x.position = y.position
               \/ RoleIn(x.item.snippet) # "" \/ RoleIn(x.item.title) # "")
              => x.profile.role = y.profile.role

\* the same triple was extracted for two searched positions, neither text yields
\* a role, and the two profiles carry different roles
C24_Witness ==
  /\ Len(extracted) = 2
  /\ SameTriple(extracted[1], extracted[2])
  /\ ~extracted[1].profile.none
  /\ extracted[1].position # extracted[2].position
  /\ RoleIn(extracted[1].item.snippet) = ""
  /\ RoleIn(extracted[1].item.title) = ""
  /\ extracted[1].profile.role # extracted[2].profile.role

====
